---- MODULE Spec2Model ----
(***************************************************************************)
(* Transfer state machines of the rainbow-bridge client:                   *)
(*   - natural ETH, Ethereum -> Aurora   (lock, sync, mint by relayer)      *)
(*   - natural NEP-141, NEAR -> Aurora   (lock only)                        *)
(* One transfer record is driven by act / checkStatus while the chains, the *)
(* wallet and the relayer move around it.                                   *)
(***************************************************************************)
EXTENDS Integers, Sequences, FiniteSets, TLC

\* ------------------------------------------------------------------ bounds
\* Transactions (lock broadcasts and their replacements) the chains ever see.
MaxTx == 2
\* Lock transactions are mined in blocks 100..MaxBlock.
MaxBlock == 100
\* The light client's synced height ranges over SyncHeights, up to MaxSync.
MaxSync == 121

\* Rows the indexer hands to findAllTransfers.
MaxFeed == 2

BlockNumbers == 100..MaxBlock
SyncHeights == {99} \cup (119..MaxSync)
Hashes == 1..MaxTx

\* ------------------------------------------------------- program constants
NeededConfirmations == 20
ReorgMargin == 20

null == "null"
LOCK == "lock-natural-ether-to-aurora"
SYNC == "sync-natural-ether-to-aurora"
MINT == "mint-natural-ether-to-aurora"
NEAR_LOCK == "lock-natural-nep141-to-aurora"

ACTION_NEEDED == "action-needed"
IN_PROGRESS == "in-progress"
COMPLETE == "complete"
FAILED == "failed"

\* process.env.auroraEvmAccount, and one Ethereum address in its lower-case
\* and its checksum spelling.
AuroraEvmAccount == "aurora"
Hex40Lower == "52908400098527886e0f7030069857d2e4169ee7"
Hex40Mixed == "52908400098527886E0F7030069857D2E4169EE7"

ETH_TRANSFER_TYPE == "@near-eth/aurora-ether/natural-ether/sendToAurora"
NEAR_TRANSFER_TYPE == "@near-eth/aurora-nep141/natural-nep141/sendToAurora"

\* ----------------------------------------------------------------- helpers
last(arr) == arr[Len(arr)]

Max(a, b) == IF a >= b THEN a ELSE b

IsPrefix(s, t) == /\ Len(s) <= Len(t)
                  /\ \A i \in 1..Len(s) : s[i] = t[i]

Range(s) == {s[i] : i \in 1..Len(s)}

\* An entry of transfer.errors: the message, and the transaction a looked-up
\* message (revert reason) was asked for (0 when the message names none).
Err(msg, tx) == [msg |-> msg, tx |-> tx]

\* What a call hands back to its caller: the record it resolved with, or the
\* error it rejected with (the caller then still holds the record it passed),
\* and the transactions the call broadcast.
Ret(t) == [transfer |-> t, threw |-> FALSE, error |-> "", sent |-> <<>>]
Throw(t, e) == [transfer |-> t, threw |-> TRUE, error |-> e, sent |-> <<>>]

\* --------------------------------------------------- Ethereum chain (model)
\* A transaction as the Ethereum node knows it.
NoTx == [state |-> "unsent", nonce |-> 0, block |-> 0, match |-> TRUE]

Mined(tx) == tx.state \in {"success", "reverted"}

\* web3.eth.getTransactionReceipt: the receipt of a mined transaction, nothing
\* for any other (or while the node has not caught up with the block: lag).
getTransactionReceipt(txs, h, lag) ==
  IF Mined(txs[h]) /\ ~lag
  THEN <<[transactionHash |-> h,
          status |-> (txs[h].state = "success"),
          blockNumber |-> txs[h].block]>>
  ELSE <<>>

\* find-replacement-tx: search the chain from safeReorgHeight for a mined
\* transaction with the sender and nonce of the cached one.
findReplacementTx(txs, cache, up) ==
  LET sameNonce == {r \in DOMAIN txs : txs[r].nonce = cache.nonce}
      mined == {r \in sameNonce : Mined(txs[r]) /\ txs[r].block >= cache.safeReorgHeight}
  IN  IF ~up THEN [kind |-> "rpcError", hash |-> 0]
      ELSE IF mined # {}
      THEN LET r == CHOOSE x \in mined : TRUE
           IN  IF txs[r].match
               THEN [kind |-> "found", hash |-> r]
               ELSE [kind |-> "TxValidationError", hash |-> r]
      ELSE IF \E r \in sameNonce : txs[r].state = "pending"
      THEN [kind |-> "none", hash |-> 0]
      ELSE [kind |-> "SearchError", hash |-> 0]

\* ------------------------------------------- Ethereum -> Aurora: the record
transferDraft ==
  [completedStep |-> null,
   errors |-> <<>>,
   status |-> ACTION_NEEDED,
   type |-> ETH_TRANSFER_TYPE,
   completedConfirmations |-> 0,
   lockHashes |-> <<>>,
   lockReceipts |-> <<>>,
   neededConfirmations |-> NeededConfirmations,
   mintHashes |-> <<>>,
   ethCache |-> <<>>]

\* The record initiate builds before it calls lock (lines 181-196): sender and
\* recipient are both the address selected in the wallet.
initiateFrom(selectedAddress) ==
  [f \in (DOMAIN transferDraft) \cup {"id", "amount", "sender", "recipient"} |->
     IF f \in DOMAIN transferDraft THEN transferDraft[f]
     ELSE IF f = "id" THEN "t1"
     ELSE IF f = "amount" THEN "1000"
     ELSE selectedAddress]

initiateDraft == initiateFrom("0x" \o Hex40Lower)

\* ---------------------------------------- Ethereum -> Aurora: the handlers
\* lock keeping only the hash of the transaction it has just sent.
lockOverwrite(transfer, env, h) ==
  IF env.pre = "wrongNetwork" THEN Throw(transfer, "WrongNetwork")
  ELSE IF env.pre = "rpcError" THEN Throw(transfer, "RpcError")
  ELSE IF ~env.send THEN Throw(transfer, "SendRejected")
  ELSE IF env.pending = "rpcError"
  THEN [Throw(transfer, "RpcError") EXCEPT !.sent = <<h>>]
  ELSE IF env.pending = "null"
  THEN [Throw(transfer, "TypeError") EXCEPT !.sent = <<h>>]
  ELSE [Ret([transfer EXCEPT
               !.status = IN_PROGRESS,
               !.ethCache = <<[from |-> transfer.sender,
                               to |-> "custodian",
                               nonce |-> h,
                               data |-> "depositToEVM",
                               safeReorgHeight |-> env.bn - ReorgMargin]>>,
               !.lockHashes = <<h>>])
        EXCEPT !.sent = <<h>>]

\* lock: env.pre is what happens before the broadcast (network check, block
\* number), env.send whether the wallet hands back a transaction hash, and
\* env.pending what getTransaction(lockHash) answers right after; h is the hash
\* of the broadcast transaction and env.bn the current block number.
lock(transfer, env, h) ==
  IF env.pre = "wrongNetwork" THEN Throw(transfer, "WrongNetwork")
  ELSE IF env.pre = "rpcError" THEN Throw(transfer, "RpcError")
  ELSE IF ~env.send THEN Throw(transfer, "SendRejected")
  ELSE IF env.pending = "rpcError"
  THEN [Throw(transfer, "RpcError") EXCEPT !.sent = <<h>>]
  ELSE IF env.pending = "null"
  THEN [Throw(transfer, "TypeError") EXCEPT !.sent = <<h>>]
  ELSE [Ret([transfer EXCEPT
               !.status = IN_PROGRESS,
               !.ethCache = <<[from |-> transfer.sender,
                               to |-> "custodian",
                               nonce |-> h,
                               data |-> "depositToEVM",
                               safeReorgHeight |-> env.bn - ReorgMargin]>>,
               !.lockHashes = Append(transfer.lockHashes, h)])
        EXCEPT !.sent = <<h>>]

\* checkLockReceipt without the record of the replacement's hash.
checkLockReceiptNoAppend(transfer, lockHash, lockReceipt, env) ==
  IF lockReceipt = <<>> THEN Ret(transfer)
  ELSE IF ~lockReceipt[1].status
  THEN Ret([transfer EXCEPT
              !.status = FAILED,
              !.errors = Append(transfer.errors,
                                IF env.reasonUp
                                THEN Err("revert reason", lockHash)
                                ELSE Err("Could not determine why transaction failed", lockHash)),
              !.lockReceipts = Append(transfer.lockReceipts, lockReceipt[1])])
  ELSE Ret([transfer EXCEPT
              !.status = IN_PROGRESS,
              !.completedStep = LOCK,
              !.lockReceipts = Append(transfer.lockReceipts, lockReceipt[1])])

\* checkLockReceipt recording an error only when the revert reason is known.
checkLockReceiptNoReason(transfer, lockHash, lockReceipt, env) ==
  IF lockReceipt = <<>> THEN Ret(transfer)
  ELSE IF ~lockReceipt[1].status
  THEN Ret([transfer EXCEPT
              !.status = FAILED,
              !.errors = IF env.reasonUp
                         THEN Append(transfer.errors, Err("revert reason", lockHash))
                         ELSE transfer.errors,
              !.lockReceipts = Append(transfer.lockReceipts, lockReceipt[1])])
  ELSE Ret([transfer EXCEPT
              !.lockHashes = IF lockReceipt[1].transactionHash # lockHash
                             THEN Append(transfer.lockHashes, lockReceipt[1].transactionHash)
                             ELSE transfer.lockHashes,
              !.status = IN_PROGRESS,
              !.completedStep = LOCK,
              !.lockReceipts = Append(transfer.lockReceipts, lockReceipt[1])])

\* checkLockReceipt letting a failed revert-reason lookup escape.
checkLockReceiptThrowReason(transfer, lockHash, lockReceipt, env) ==
  IF lockReceipt = <<>> THEN Ret(transfer)
  ELSE IF ~lockReceipt[1].status
  THEN IF ~env.reasonUp THEN Throw(transfer, "RpcError")
       ELSE Ret([transfer EXCEPT
                   !.status = FAILED,
                   !.errors = Append(transfer.errors, Err("revert reason", lockHash)),
                   !.lockReceipts = Append(transfer.lockReceipts, lockReceipt[1])])
  ELSE Ret([transfer EXCEPT
              !.lockHashes = IF lockReceipt[1].transactionHash # lockHash
                             THEN Append(transfer.lockHashes, lockReceipt[1].transactionHash)
                             ELSE transfer.lockHashes,
              !.status = IN_PROGRESS,
              !.completedStep = LOCK,
              !.lockReceipts = Append(transfer.lockReceipts, lockReceipt[1])])

\* checkLockReceipt dropping the cached transaction once a receipt is in.
checkLockReceiptClearCache(transfer, lockHash, lockReceipt, env) ==
  IF lockReceipt = <<>> THEN Ret(transfer)
  ELSE IF ~lockReceipt[1].status
  THEN Ret([transfer EXCEPT
              !.status = FAILED,
              !.ethCache = <<>>,
              !.errors = Append(transfer.errors,
                                IF env.reasonUp
                                THEN Err("revert reason", lockHash)
                                ELSE Err("Could not determine why transaction failed", lockHash)),
              !.lockReceipts = Append(transfer.lockReceipts, lockReceipt[1])])
  ELSE Ret([transfer EXCEPT
              !.lockHashes = IF lockReceipt[1].transactionHash # lockHash
                             THEN Append(transfer.lockHashes, lockReceipt[1].transactionHash)
                             ELSE transfer.lockHashes,
              !.status = IN_PROGRESS,
              !.completedStep = LOCK,
              !.ethCache = <<>>,
              !.lockReceipts = Append(transfer.lockReceipts, lockReceipt[1])])

\* The part of checkLock after the receipt lookups (lines 298-328).
checkLockReceipt(transfer, lockHash, lockReceipt, env) ==
  IF lockReceipt = <<>> THEN Ret(transfer)
  ELSE IF ~lockReceipt[1].status
  THEN Ret([transfer EXCEPT
              !.status = FAILED,
              !.errors = Append(transfer.errors,
                                IF env.reasonUp
                                THEN Err("revert reason", lockHash)
                                ELSE Err("Could not determine why transaction failed", lockHash)),
              !.lockReceipts = Append(transfer.lockReceipts, lockReceipt[1])])
  ELSE Ret([transfer EXCEPT
              !.lockHashes = IF lockReceipt[1].transactionHash # lockHash
                             THEN Append(transfer.lockHashes, lockReceipt[1].transactionHash)
                             ELSE transfer.lockHashes,
              !.status = IN_PROGRESS,
              !.completedStep = LOCK,
              !.lockReceipts = Append(transfer.lockReceipts, lockReceipt[1])])

\* checkLock recording every error of the replacement search as a failure.
checkLockSwallow(transfer, txs, env) ==
  LET lockHash == last(transfer.lockHashes)
      lockReceipt == getTransactionReceipt(txs, lockHash, env.lag1)
  IN  IF env.net = "rpcError" THEN Throw(transfer, "RpcError")
      ELSE IF env.net = "wrongNetwork" THEN Ret(transfer)
      ELSE IF ~env.receiptUp THEN Throw(transfer, "RpcError")
      ELSE IF lockReceipt # <<>>
      THEN checkLockReceipt(transfer, lockHash, lockReceipt, env)
      ELSE IF transfer.ethCache = <<>> THEN Throw(transfer, "TypeError")
      ELSE LET foundTx == findReplacementTx(txs, transfer.ethCache[1], env.finderUp)
           IN  IF foundTx.kind \in {"rpcError", "SearchError", "TxValidationError"}
               THEN Ret([transfer EXCEPT
                           !.errors = Append(transfer.errors, Err(foundTx.kind, 0)),
                           !.status = FAILED])
               ELSE IF foundTx.kind = "none" THEN Ret(transfer)
               ELSE checkLockReceipt(transfer, lockHash,
                      getTransactionReceipt(txs, foundTx.hash, env.lag2), env)

\* checkLock sending the lock again when the search finds the transaction gone.
checkLockRebroadcast(transfer, txs, env) ==
  LET lockHash == last(transfer.lockHashes)
      lockReceipt == getTransactionReceipt(txs, lockHash, env.lag1)
      fresh == 1 + Cardinality({h \in DOMAIN txs : txs[h].state # "unsent"})
  IN  IF env.net = "rpcError" THEN Throw(transfer, "RpcError")
      ELSE IF env.net = "wrongNetwork" THEN Ret(transfer)
      ELSE IF ~env.receiptUp THEN Throw(transfer, "RpcError")
      ELSE IF lockReceipt # <<>>
      THEN checkLockReceipt(transfer, lockHash, lockReceipt, env)
      ELSE IF transfer.ethCache = <<>> THEN Throw(transfer, "TypeError")
      ELSE LET foundTx == findReplacementTx(txs, transfer.ethCache[1], env.finderUp)
           IN  IF foundTx.kind = "rpcError" THEN Throw(transfer, "RpcError")
               ELSE IF foundTx.kind = "SearchError" /\ fresh \in DOMAIN txs
               THEN [Ret([transfer EXCEPT
                            !.lockHashes = Append(transfer.lockHashes, fresh)])
                     EXCEPT !.sent = <<fresh>>]
               ELSE IF foundTx.kind \in {"SearchError", "TxValidationError"}
               THEN Ret([transfer EXCEPT
                           !.errors = Append(transfer.errors, Err(foundTx.kind, 0)),
                           !.status = FAILED])
               ELSE IF foundTx.kind = "none" THEN Ret(transfer)
               ELSE checkLockReceipt(transfer, lockHash,
                      getTransactionReceipt(txs, foundTx.hash, env.lag2), env)

\* checkLock giving up on a lock transaction the search cannot see yet.
checkLockGiveUp(transfer, txs, env) ==
  LET lockHash == last(transfer.lockHashes)
      lockReceipt == getTransactionReceipt(txs, lockHash, env.lag1)
  IN  IF env.net = "rpcError" THEN Throw(transfer, "RpcError")
      ELSE IF env.net = "wrongNetwork" THEN Ret(transfer)
      ELSE IF ~env.receiptUp THEN Throw(transfer, "RpcError")
      ELSE IF lockReceipt # <<>>
      THEN checkLockReceipt(transfer, lockHash, lockReceipt, env)
      ELSE IF transfer.ethCache = <<>> THEN Throw(transfer, "TypeError")
      ELSE LET foundTx == findReplacementTx(txs, transfer.ethCache[1], env.finderUp)
           IN  IF foundTx.kind = "rpcError" THEN Throw(transfer, "RpcError")
               ELSE IF foundTx.kind \in {"SearchError", "TxValidationError", "none"}
               THEN Ret([transfer EXCEPT
                           !.errors = Append(transfer.errors, Err(foundTx.kind, 0)),
                           !.status = FAILED])
               ELSE checkLockReceipt(transfer, lockHash,
                      getTransactionReceipt(txs, foundTx.hash, env.lag2), env)

checkLock(transfer, txs, env) ==
  LET lockHash == last(transfer.lockHashes)
      lockReceipt == getTransactionReceipt(txs, lockHash, env.lag1)
  IN  IF env.net = "rpcError" THEN Throw(transfer, "RpcError")
      ELSE IF env.net = "wrongNetwork" THEN Ret(transfer)
      ELSE IF ~env.receiptUp THEN Throw(transfer, "RpcError")
      ELSE IF lockReceipt # <<>>
      THEN checkLockReceipt(transfer, lockHash, lockReceipt, env)
      ELSE IF transfer.ethCache = <<>> THEN Throw(transfer, "TypeError")
      ELSE LET foundTx == findReplacementTx(txs, transfer.ethCache[1], env.finderUp)
           IN  IF foundTx.kind = "rpcError" THEN Throw(transfer, "RpcError")
               ELSE IF foundTx.kind \in {"SearchError", "TxValidationError"}
               THEN Ret([transfer EXCEPT
                           !.errors = Append(transfer.errors, Err(foundTx.kind, 0)),
                           !.status = FAILED])
               ELSE IF foundTx.kind = "none" THEN Ret(transfer)
               ELSE checkLockReceipt(transfer, lockHash,
                      getTransactionReceipt(txs, foundTx.hash, env.lag2), env)

\* checkSync with the step taken back when the light client shows no
\* confirmation (a reorg handled by starting over).
checkSyncRestart(transfer, syncedTo, usedProofs, env) ==
  LET lockReceipt == last(transfer.lockReceipts)
      completedConfirmations == Max(0, syncedTo - lockReceipt.blockNumber)
  IN  IF ~env.syncUp THEN Throw(transfer, "RpcError")
      ELSE IF completedConfirmations > transfer.neededConfirmations
      THEN IF ~env.proofUp THEN Throw(transfer, "RpcError")
           ELSE IF lockReceipt.transactionHash \in usedProofs
           THEN Ret([transfer EXCEPT
                       !.completedStep = MINT,
                       !.completedConfirmations = completedConfirmations,
                       !.status = COMPLETE,
                       !.errors = Append(transfer.errors, Err("Transfer already finalized.", 0))])
           ELSE Ret([transfer EXCEPT
                       !.completedConfirmations = completedConfirmations,
                       !.status = IN_PROGRESS])
      ELSE Ret([transfer EXCEPT
                  !.completedStep = IF completedConfirmations = 0 THEN null ELSE LOCK,
                  !.completedConfirmations = completedConfirmations,
                  !.status = IN_PROGRESS])

\* checkSync adding the confirmations it sees to those already counted.
checkSyncAccumulate(transfer, syncedTo, usedProofs, env) ==
  LET lockReceipt == last(transfer.lockReceipts)
      completedConfirmations == transfer.completedConfirmations
                                  + Max(0, syncedTo - lockReceipt.blockNumber)
  IN  IF ~env.syncUp THEN Throw(transfer, "RpcError")
      ELSE IF completedConfirmations > transfer.neededConfirmations
      THEN IF ~env.proofUp THEN Throw(transfer, "RpcError")
           ELSE IF lockReceipt.transactionHash \in usedProofs
           THEN Ret([transfer EXCEPT
                       !.completedStep = MINT,
                       !.completedConfirmations = completedConfirmations,
                       !.status = COMPLETE,
                       !.errors = Append(transfer.errors, Err("Transfer already finalized.", 0))])
           ELSE Ret([transfer EXCEPT
                       !.completedConfirmations = completedConfirmations,
                       !.status = IN_PROGRESS])
      ELSE Ret([transfer EXCEPT
                  !.completedConfirmations = completedConfirmations,
                  !.status = IN_PROGRESS])

\* checkSync completing as soon as the needed confirmations are reached.
checkSyncAtLeast(transfer, syncedTo, usedProofs, env) ==
  LET lockReceipt == last(transfer.lockReceipts)
      completedConfirmations == Max(0, syncedTo - lockReceipt.blockNumber)
  IN  IF ~env.syncUp THEN Throw(transfer, "RpcError")
      ELSE IF completedConfirmations >= transfer.neededConfirmations
      THEN IF ~env.proofUp THEN Throw(transfer, "RpcError")
           ELSE IF lockReceipt.transactionHash \in usedProofs
           THEN Ret([transfer EXCEPT
                       !.completedStep = MINT,
                       !.completedConfirmations = completedConfirmations,
                       !.status = COMPLETE,
                       !.errors = Append(transfer.errors, Err("Transfer already finalized.", 0))])
           ELSE Ret([transfer EXCEPT
                       !.completedConfirmations = completedConfirmations,
                       !.status = IN_PROGRESS])
      ELSE Ret([transfer EXCEPT
                  !.completedConfirmations = completedConfirmations,
                  !.status = IN_PROGRESS])

\* checkSync counting confirmations as the plain difference of the heights.
checkSyncSigned(transfer, syncedTo, usedProofs, env) ==
  LET lockReceipt == last(transfer.lockReceipts)
      completedConfirmations == syncedTo - lockReceipt.blockNumber
  IN  IF ~env.syncUp THEN Throw(transfer, "RpcError")
      ELSE IF completedConfirmations > transfer.neededConfirmations
      THEN IF ~env.proofUp THEN Throw(transfer, "RpcError")
           ELSE IF lockReceipt.transactionHash \in usedProofs
           THEN Ret([transfer EXCEPT
                       !.completedStep = MINT,
                       !.completedConfirmations = completedConfirmations,
                       !.status = COMPLETE,
                       !.errors = Append(transfer.errors, Err("Transfer already finalized.", 0))])
           ELSE Ret([transfer EXCEPT
                       !.completedConfirmations = completedConfirmations,
                       !.status = IN_PROGRESS])
      ELSE Ret([transfer EXCEPT
                  !.completedConfirmations = completedConfirmations,
                  !.status = IN_PROGRESS])

\* checkSync failing the record when the proof lookup does not answer.
checkSyncFailOnError(transfer, syncedTo, usedProofs, env) ==
  LET lockReceipt == last(transfer.lockReceipts)
      completedConfirmations == Max(0, syncedTo - lockReceipt.blockNumber)
  IN  IF ~env.syncUp THEN Throw(transfer, "RpcError")
      ELSE IF completedConfirmations > transfer.neededConfirmations
      THEN IF ~env.proofUp
           THEN Ret([transfer EXCEPT
                       !.status = FAILED,
                       !.errors = Append(transfer.errors, Err("RpcError", 0))])
           ELSE IF lockReceipt.transactionHash \in usedProofs
           THEN Ret([transfer EXCEPT
                       !.completedStep = MINT,
                       !.completedConfirmations = completedConfirmations,
                       !.status = COMPLETE,
                       !.errors = Append(transfer.errors, Err("Transfer already finalized.", 0))])
           ELSE Ret([transfer EXCEPT
                       !.completedConfirmations = completedConfirmations,
                       !.status = IN_PROGRESS])
      ELSE Ret([transfer EXCEPT
                  !.completedConfirmations = completedConfirmations,
                  !.status = IN_PROGRESS])

\* checkSync counting confirmations without asking whether the proof is used.
checkSyncCountOnly(transfer, syncedTo, usedProofs, env) ==
  LET lockReceipt == last(transfer.lockReceipts)
      completedConfirmations == Max(0, syncedTo - lockReceipt.blockNumber)
  IN  IF ~env.syncUp THEN Throw(transfer, "RpcError")
      ELSE Ret([transfer EXCEPT
                  !.completedConfirmations = completedConfirmations,
                  !.status = IN_PROGRESS])

checkSync(transfer, syncedTo, usedProofs, env) ==
  LET lockReceipt == last(transfer.lockReceipts)
      eventEmittedAt == lockReceipt.blockNumber
      completedConfirmations == Max(0, syncedTo - eventEmittedAt)
  IN  IF ~env.syncUp THEN Throw(transfer, "RpcError")
      ELSE IF completedConfirmations > transfer.neededConfirmations
      THEN IF ~env.proofUp THEN Throw(transfer, "RpcError")
           ELSE IF lockReceipt.transactionHash \in usedProofs
           THEN Ret([transfer EXCEPT
                       !.completedStep = MINT,
                       !.completedConfirmations = completedConfirmations,
                       !.status = COMPLETE,
                       !.errors = Append(transfer.errors, Err("Transfer already finalized.", 0))])
           ELSE Ret([transfer EXCEPT
                       !.completedConfirmations = completedConfirmations,
                       !.status = IN_PROGRESS])
      ELSE Ret([transfer EXCEPT
                  !.completedConfirmations = completedConfirmations,
                  !.status = IN_PROGRESS])

\* act taking the last step for one more round of checkSync.
actResync(transfer, syncedTo, usedProofs, env, h) ==
  IF transfer.completedStep = null THEN lock(transfer, env, h)
  ELSE IF transfer.completedStep \in {LOCK, MINT}
  THEN checkSync(transfer, syncedTo, usedProofs, env)
  ELSE Throw(transfer, "UnrecognizedStep")

\* act and checkStatus (lines 93-113): dispatch on completedStep alone.
act(transfer, syncedTo, usedProofs, env, h) ==
  IF transfer.completedStep = null THEN lock(transfer, env, h)
  ELSE IF transfer.completedStep = LOCK THEN checkSync(transfer, syncedTo, usedProofs, env)
  ELSE Throw(transfer, "UnrecognizedStep")

checkStatus(transfer, txs, syncedTo, usedProofs, env) ==
  IF transfer.completedStep = null THEN checkLock(transfer, txs, env)
  ELSE IF transfer.completedStep = LOCK THEN checkSync(transfer, syncedTo, usedProofs, env)
  ELSE Throw(transfer, "UnrecognizedStep")

\* ------------------------------------------ Ethereum -> Aurora: recover
\* Strings the handlers take apart are kept as sequences of pieces: a protocol
\* message is its pieces with ":" between them.

\* String.prototype.toLowerCase and slice(2) on the addresses in use.
toLowerCase(s) == IF s = Hex40Mixed THEN Hex40Lower
                  ELSE IF s = "0x" \o Hex40Mixed THEN "0x" \o Hex40Lower
                  ELSE s

slice2(s) == IF s = "0x" \o Hex40Lower THEN Hex40Lower
             ELSE IF s = "0x" \o Hex40Mixed THEN Hex40Mixed
             ELSE s

\* protocolMessage.split(':'): the segments between the colons.
RECURSIVE split(_)
split(msg) ==
  IF msg = <<>> THEN << <<>> >>
  ELSE LET rest == split(Tail(msg))
       IN  IF Head(msg) = ":"
           THEN << <<>> >> \o rest
           ELSE << <<Head(msg)>> \o rest[1] >> \o Tail(rest)

RECURSIVE join(_)
join(seg) == IF seg = <<>> THEN "" ELSE Head(seg) \o join(Tail(seg))

\* /^([A-Fa-f0-9]{40})$/.test(segment); a missing segment (undefined) fails.
isHex40(parts, i) ==
  /\ i <= Len(parts)
  /\ parts[i] \in {<<Hex40Lower>>, <<Hex40Mixed>>}

\* The message the custodian emits for depositToEVM(recipient, fee).
depositMessage(recipient) == <<AuroraEvmAccount, ":", recipient>>

\* What a recover call hands back: a record, or an error and no record.
Recovered(t) == [rec |-> <<t>>, threw |-> FALSE, error |-> ""]
RecoverFails(e) == [rec |-> <<>>, threw |-> TRUE, error |-> e]

\* The record of recover with the recipient as the message spells it.
recoverBaseBareRecipient(lockTxHash, receipt, lockedEvent, auroraRecipient, now) ==
  [f \in (DOMAIN transferDraft) \cup {"id", "amount", "sender", "recipient"} |->
     IF f = "id" THEN now
     ELSE IF f = "amount" THEN lockedEvent.amount
     ELSE IF f = "completedStep" THEN LOCK
     ELSE IF f = "recipient" THEN join(auroraRecipient)
     ELSE IF f = "sender" THEN lockedEvent.sender
     ELSE IF f = "status" THEN IN_PROGRESS
     ELSE IF f = "lockHashes" THEN <<lockTxHash>>
     ELSE IF f = "lockReceipts" THEN <<receipt>>
     ELSE transferDraft[f]]

\* The record of recover with an id made of the lock transaction hash.
recoverBaseHashId(lockTxHash, receipt, lockedEvent, auroraRecipient, now) ==
  [f \in (DOMAIN transferDraft) \cup {"id", "amount", "sender", "recipient"} |->
     IF f = "id" THEN "lock-" \o ToString(lockTxHash)
     ELSE IF f = "amount" THEN lockedEvent.amount
     ELSE IF f = "completedStep" THEN LOCK
     ELSE IF f = "recipient" THEN "0x" \o join(auroraRecipient)
     ELSE IF f = "sender" THEN lockedEvent.sender
     ELSE IF f = "status" THEN IN_PROGRESS
     ELSE IF f = "lockHashes" THEN <<lockTxHash>>
     ELSE IF f = "lockReceipts" THEN <<receipt>>
     ELSE transferDraft[f]]

\* The record recover builds from the event (lines 152-168).
recoverBase(lockTxHash, receipt, lockedEvent, auroraRecipient, now) ==
  [f \in (DOMAIN transferDraft) \cup {"id", "amount", "sender", "recipient"} |->
     IF f = "id" THEN now
     ELSE IF f = "amount" THEN lockedEvent.amount
     ELSE IF f = "completedStep" THEN LOCK
     ELSE IF f = "recipient" THEN "0x" \o join(auroraRecipient)
     ELSE IF f = "sender" THEN lockedEvent.sender
     ELSE IF f = "status" THEN IN_PROGRESS
     ELSE IF f = "lockHashes" THEN <<lockTxHash>>
     ELSE IF f = "lockReceipts" THEN <<receipt>>
     ELSE transferDraft[f]]

\* recover taking the recipient of a message whatever account it names.
recoverAnyAccount(lockTxHash, receipt, events, syncedTo, usedProofs, env, now) ==
  IF ~env.receiptUp THEN RecoverFails("RpcError")
  ELSE IF receipt = <<>> THEN RecoverFails("TypeError")
  ELSE IF ~env.eventsUp THEN RecoverFails("RpcError")
  ELSE IF ~\E e \in events : e.transactionHash = lockTxHash
  THEN RecoverFails("EventNotFound")
  ELSE LET lockedEvent == CHOOSE e \in events : e.transactionHash = lockTxHash
           parts == split(lockedEvent.recipient)
       IN  IF ~isHex40(parts, 2) THEN RecoverFails("MalformedMessage")
           ELSE LET r == checkSync(recoverBase(lockTxHash, receipt[1], lockedEvent,
                                               parts[2], now),
                                   syncedTo, usedProofs, env)
                IN  IF r.threw THEN RecoverFails(r.error) ELSE Recovered(r.transfer)

\* recover handing back the record as built, without the checkSync round.
recoverStale(lockTxHash, receipt, events, syncedTo, usedProofs, env, now) ==
  IF ~env.receiptUp THEN RecoverFails("RpcError")
  ELSE IF receipt = <<>> THEN RecoverFails("TypeError")
  ELSE IF ~env.eventsUp THEN RecoverFails("RpcError")
  ELSE IF ~\E e \in events : e.transactionHash = lockTxHash
  THEN RecoverFails("EventNotFound")
  ELSE LET lockedEvent == CHOOSE e \in events : e.transactionHash = lockTxHash
           parts == split(lockedEvent.recipient)
       IN  IF join(parts[1]) # AuroraEvmAccount THEN RecoverFails("WrongDestination")
           ELSE IF ~isHex40(parts, 2) THEN RecoverFails("MalformedMessage")
           ELSE Recovered(recoverBase(lockTxHash, receipt[1], lockedEvent, parts[2], now))

\* recover (lines 119-172). receipt: what getTransactionReceipt answers (<<>>
\* for null); events: the Deposited events of the receipt's block; now: the
\* clock reading taken for the id.
recover(lockTxHash, receipt, events, syncedTo, usedProofs, env, now) ==
  IF ~env.receiptUp THEN RecoverFails("RpcError")
  ELSE IF receipt = <<>> THEN RecoverFails("TypeError")
  ELSE IF ~env.eventsUp THEN RecoverFails("RpcError")
  ELSE IF ~\E e \in events : e.transactionHash = lockTxHash
  THEN RecoverFails("EventNotFound")
  ELSE LET lockedEvent == CHOOSE e \in events : e.transactionHash = lockTxHash
           parts == split(lockedEvent.recipient)
       IN  IF join(parts[1]) # AuroraEvmAccount THEN RecoverFails("WrongDestination")
           ELSE IF ~isHex40(parts, 2) THEN RecoverFails("MalformedMessage")
           ELSE LET r == checkSync(recoverBase(lockTxHash, receipt[1], lockedEvent,
                                               parts[2], now),
                                   syncedTo, usedProofs, env)
                IN  IF r.threw THEN RecoverFails(r.error) ELSE Recovered(r.transfer)

\* What the chains and the RPC endpoints can answer during one call.
\* One representative answer per outcome of a call (an answer the call never
\* gets to read is left at its default).
LockEnvs ==
  {e \in [pre : {"ok", "wrongNetwork", "rpcError"},
          send : BOOLEAN,
          pending : {"ok", "null", "rpcError"},
          bn : BlockNumbers] :
     /\ e.pre # "ok" => e.send /\ e.pending = "ok" /\ e.bn = 100
     /\ ~e.send => e.pending = "ok" /\ e.bn = 100
     /\ e.pending # "ok" => e.bn = 100}

CheckLockEnvs ==
  {e \in [net : {"ok", "wrongNetwork", "rpcError"},
          receiptUp : BOOLEAN,
          lag1 : BOOLEAN,
          lag2 : BOOLEAN,
          finderUp : BOOLEAN,
          reasonUp : BOOLEAN] :
     /\ e.net # "ok" => e.receiptUp /\ ~e.lag1 /\ ~e.lag2 /\ e.finderUp /\ e.reasonUp
     /\ ~e.receiptUp => ~e.lag1 /\ ~e.lag2 /\ e.finderUp /\ e.reasonUp
     /\ ~e.finderUp => ~e.lag1 /\ ~e.lag2 /\ e.reasonUp
     /\ e.lag2 => e.reasonUp}

SyncEnvs == [syncUp : BOOLEAN, proofUp : BOOLEAN]

\* The endpoints all answer, with nothing lagging.
CheckLockOk == [net |-> "ok", receiptUp |-> TRUE, lag1 |-> FALSE, lag2 |-> FALSE,
                finderUp |-> TRUE, reasonUp |-> TRUE]

SyncOk == [syncUp |-> TRUE, proofUp |-> TRUE]

\* ------------------------------------------------ NEAR -> Aurora: the record
nearTransferDraft ==
  [completedStep |-> null,
   errors |-> <<>>,
   status |-> IN_PROGRESS,
   type |-> NEAR_TRANSFER_TYPE,
   lockHashes |-> <<>>]

\* The record sendToAurora (sourceToken a NEP-141 token) or
\* wrapAndSendNearToAurora (sourceToken "NEAR") builds before it locks.
nearInitiateDraft(sourceToken) ==
  [f \in (DOMAIN nearTransferDraft) \cup
         {"id", "startTime", "amount", "sourceToken", "sender", "recipient"} |->
     IF f \in DOMAIN nearTransferDraft THEN nearTransferDraft[f]
     ELSE IF f = "id" THEN "t1"
     ELSE IF f = "startTime" THEN "created"
     ELSE IF f = "amount" THEN "1000"
     ELSE IF f = "sourceToken" THEN sourceToken
     ELSE IF f = "sender" THEN "alice.near"
     ELSE "0xrecipient"]

\* The wallet-redirect parameters of the page URL (@near-eth/utils urlParams).
NoParams == [locking |-> "", transactionHashes |-> 0, errorCode |-> ""]

\* A call of the NEAR variant also hands back the URL parameters it leaves.
NRet(t, url) == [transfer |-> t, threw |-> FALSE, error |-> "", sent |-> <<>>, url |-> url]
NThrow(t, e, url) == [transfer |-> t, threw |-> TRUE, error |-> e, sent |-> <<>>, url |-> url]

\* --------------------------------------------- NEAR -> Aurora: the handlers
\* lock (lines 381-422). env.pre: the account lookup before anything is set;
\* env.wallet: the signing call returns the sent transaction, leaves the page
\* for the wallet (the call never returns; the tracked record is what the next
\* call is given), or throws.
nearLock(transfer, url, env, h, hasWindow) ==
  LET url1 == IF hasWindow THEN [url EXCEPT !.locking = transfer.id] ELSE url
      tracked == IF hasWindow THEN [transfer EXCEPT !.status = IN_PROGRESS] ELSE transfer
  IN  IF env.pre = "rpcError" THEN NThrow(transfer, "RpcError", url)
      ELSE IF env.wallet = "threw"
      THEN NThrow(transfer, "Failed to redirect to sign transaction", url1)
      ELSE IF env.wallet = "redirected" THEN NRet(tracked, url1)
      ELSE [NRet([tracked EXCEPT !.lockHashes = <<h>>], url1) EXCEPT !.sent = <<h>>]

\* lockNear (lines 477-545): wraps NEAR first; env.pre also covers the storage
\* balance lookups made before anything is set.
lockNear(transfer, url, env, h, hasWindow) ==
  LET url1 == IF hasWindow THEN [url EXCEPT !.locking = transfer.id] ELSE url
      tracked == IF hasWindow THEN [transfer EXCEPT !.status = IN_PROGRESS] ELSE transfer
  IN  IF env.pre = "rpcError" THEN NThrow(transfer, "RpcError", url)
      ELSE IF env.wallet = "threw"
      THEN NThrow(transfer, "Failed to redirect to sign transaction", url1)
      ELSE IF env.wallet = "redirected" THEN NRet(tracked, url1)
      ELSE [NRet([tracked EXCEPT !.lockHashes = <<h>>], url1) EXCEPT !.sent = <<h>>]

nearAct(transfer, url, env, h, hasWindow) ==
  IF transfer.completedStep = null
  THEN LET r == IF transfer.sourceToken = "NEAR"
                THEN lockNear(transfer, url, env, h, hasWindow)
                ELSE nearLock(transfer, url, env, h, hasWindow)
       IN  IF r.threw
           THEN [r EXCEPT !.url = IF hasWindow THEN [r.url EXCEPT !.locking = ""] ELSE r.url]
           ELSE r
  ELSE NThrow(transfer, "UnrecognizedStep", url)

nearCheckLock(transfer, url, env) ==
  LET id == url.locking
      txHash == url.transactionHashes
      errorCode == url.errorCode
  IN  IF id = ""
      THEN NRet([transfer EXCEPT
                   !.status = FAILED,
                   !.errors = <<Err("Failed to process NEAR Wallet transaction.", 0)>>], url)
      ELSE IF id # transfer.id
      THEN NRet([transfer EXCEPT
                   !.status = FAILED,
                   !.errors = <<Err("Failed: Couldn't determine transaction outcome.", 0)>>], url)
      ELSE IF errorCode # ""
      THEN NRet([transfer EXCEPT
                   !.status = FAILED,
                   !.errors = <<Err("Failed: " \o errorCode, 0)>>], NoParams)
      ELSE IF txHash = 0 THEN NRet(transfer, url)
      ELSE IF ~env.rpcUp THEN NThrow(transfer, "RpcError", url)
      ELSE NRet([transfer EXCEPT
                   !.status = COMPLETE,
                   !.completedStep = NEAR_LOCK,
                   !.startTime = "block",
                   !.lockHashes = Append(transfer.lockHashes, txHash)], NoParams)

nearCheckStatus(transfer, url, env) ==
  IF transfer.completedStep = null THEN nearCheckLock(transfer, url, env)
  ELSE NThrow(transfer, "UnrecognizedStep", url)

NearLockEnvs == [pre : {"ok", "rpcError"}, wallet : {"returned", "redirected", "threw"}]

NearCheckEnvs == [rpcUp : BOOLEAN]

\* ----------------------------------------- NEAR -> Aurora: findAllTransfers
NearSender == "alice.near"
Zeros64 == "0000000000000000000000000000000000000000000000000000000000000000"

\* JSON.stringify of the amount a call used, in base64 (status.SuccessValue).
base64(used) == IF used = "0" THEN "IjAi" ELSE "IjEwIg=="

\* Buffer.from(value, 'base64').toString(), character by character.
bufferFromBase64(value) ==
  IF value = "IjAi" THEN <<"\"", "0", "\"">>
  ELSE IF value = "IjEwIg==" THEN <<"\"", "1", "0", "\"">>
  ELSE <<>>

\* provider.txStatus(hash, sender).status for a call that failed or that
\* succeeded having used an amount.
txStatus(outcome) ==
  IF outcome.failed THEN [SuccessValue |-> <<>>]
  ELSE [SuccessValue |-> <<base64(outcome.used)>>]

\* Lines 160-169: the success value without its quotes; '0' when reading it
\* throws.
successValueOf(lockTx) ==
  IF lockTx.SuccessValue = <<>> THEN "0"
  ELSE LET decoded == bufferFromBase64(lockTx.SuccessValue[1])
       IN  join(SubSeq(decoded, 2, Len(decoded) - 1))

\* regex.test(msg) (line 143), msg in its pieces.
msgMatches(nep141Address, sender, msg) ==
  IF nep141Address = AuroraEvmAccount
  THEN msg = <<sender, ":", Zeros64, Hex40Lower>>
  ELSE msg = <<Hex40Lower>>

\* The two filters of lines 154-155: the rows the lookups are started for.
candidatesOf(nep141Address, sender, rows) ==
  LET isCall(tx) == tx.method_name = "ft_transfer_call"
      isToAurora(tx) == /\ tx.receiver_id = AuroraEvmAccount
                        /\ msgMatches(nep141Address, sender, tx.msg)
  IN  SelectSeq(SelectSeq(rows, isCall), isToAurora)

\* The orders in which n lookups started together can complete.
CompletionOrders(n) ==
  {o \in [1..n -> 1..n] : \A i, j \in 1..n : o[i] = o[j] => i = j}

RECURSIVE resolveAll(_, _, _)
\* Promise.all: the value of the lookup that completes is stored at the
\* position of that lookup, one completion after the other.
resolveAll(slots, values, order) ==
  IF order = <<>> THEN slots
  ELSE resolveAll([slots EXCEPT ![Head(order)] = values[Head(order)]],
                  values, Tail(order))

\* The results collected one after the other as the lookups complete.
promiseAllAsCompleted(values, order) ==
  [k \in 1..Len(order) |-> values[order[k]]]

\* Promise.all over the lookups (line 153), which complete in the given order.
promiseAll(values, order) ==
  resolveAll([i \in 1..Len(values) |-> <<>>], values, order)

\* findAllTransfers (lines 118-195): rows are the indexer's answer, outcomes
\* the chain's outcome of each transaction, ids the Math.random draws, order
\* the order in which the lookups complete.
findAllTransfers(nep141Address, sender, rows, outcomes, ids, rpcUp, order) ==
  LET candidates == candidatesOf(nep141Address, sender, rows)
      toTransfer(tx) ==
        LET lockTx == txStatus(outcomes[tx.originated_from_transaction_hash])
            successValue == successValueOf(lockTx)
            amount == tx.amount
            recipient == IF nep141Address = AuroraEvmAccount
                         THEN "0x" \o last(tx.msg)
                         ELSE "0x" \o join(tx.msg)
        IN  IF amount # successValue THEN <<>>
            ELSE <<[type |-> NEAR_TRANSFER_TYPE,
                    id |-> ids[tx.originated_from_transaction_hash],
                    startTime |-> "block",
                    amount |-> amount,
                    sourceToken |-> nep141Address,
                    sender |-> sender,
                    recipient |-> recipient,
                    status |-> COMPLETE,
                    completedStep |-> NEAR_LOCK,
                    errors |-> <<>>,
                    lockHashes |-> <<tx.originated_from_transaction_hash>>]>>
      lookups == [i \in 1..Len(candidates) |-> toTransfer(candidates[i])]
      transfers == promiseAll(lookups, order)
      notNull(t) == t # <<>>
      kept == SelectSeq(transfers, notNull)
  IN  IF candidates # <<>> /\ ~rpcUp
      THEN [called |-> TRUE, threw |-> TRUE, transfers |-> <<>>, completed |-> <<>>]
      ELSE [called |-> TRUE, threw |-> FALSE,
            transfers |-> [i \in 1..Len(kept) |-> kept[i][1]],
            completed |-> order]

\* The rows an indexer can hold for the sender: one row per kind of call the
\* filters tell apart, with each amount.
Amounts == {"0", "10"}

RandomIds == {"4711", "0815"}

Rows ==
  {r \in [method_name : {"ft_transfer_call", "ft_transfer"},
          receiver_id : {AuroraEvmAccount, "bob.near"},
          msg : {<<Hex40Lower>>, <<Hex40Mixed>>,
                 <<NearSender, ":", Zeros64, Hex40Lower>>},
          amount : Amounts] :
     /\ r.method_name # "ft_transfer_call" =>
          r.receiver_id = AuroraEvmAccount /\ r.msg = <<Hex40Lower>> /\ r.amount = "10"
     /\ r.receiver_id # AuroraEvmAccount => r.msg = <<Hex40Lower>> /\ r.amount = "10"}

Outcomes == [failed : {TRUE}, used : {"0"}] \cup [failed : {FALSE}, used : Amounts]

\* ------------------------------------------------------------------- state
VARIABLES
  variant,      \* "eth": Ethereum -> Aurora, "near": NEAR -> Aurora
  hasWindow,    \* typeof window !== 'undefined'
  transfer,     \* the transfer record the caller holds
  txs,          \* Ethereum: the node's view of each transaction
  nTx,          \* number of transaction hashes handed out so far
  broadcasts,   \* the lock transactions sent on behalf of the transfer
  syncedTo,     \* ethOnNearSyncHeight()
  usedProofs,   \* lock transactions whose proof the relayer has used
  url,          \* NEAR: the wallet-redirect URL parameters
  wallet,       \* NEAR: "signing" while the page is at the wallet
  lastCall,     \* the last act / checkStatus call and how it ended
  calls,        \* act calls in flight on the record, per caller
  recovered,    \* the last recover call: the record it returned or its error
  feed,         \* NEAR: the indexer rows findAllTransfers is given
  found         \* NEAR: the transfers findAllTransfers returned

vars == <<variant, hasWindow, transfer, txs, nTx, broadcasts, syncedTo,
          usedProofs, url, wallet, lastCall, calls, recovered, feed, found>>

\* The state of the calls that take no part in a single transfer's act /
\* checkStatus sequence.
side == <<calls, recovered, feed, found>>

\* The callers that may hold the record at the same time.
Callers == {"a", "b"}

NoCall == [pc |-> "idle", arg |-> <<>>, result |-> <<>>, sent |-> <<>>,
           threw |-> FALSE, overlapped |-> FALSE]

NoFeed == [nep141Address |-> "", rows |-> <<>>, outcomes |-> <<>>]

NothingFound == [called |-> FALSE, threw |-> FALSE, transfers |-> <<>>,
                 completed |-> <<>>]

NoRecovery == [op |-> "none", hash |-> 0, events |-> {}, rec |-> <<>>,
               threw |-> FALSE, error |-> ""]

Call(op, r) == [op |-> op, threw |-> r.threw, error |-> r.error]

Init ==
  /\ variant \in {"eth", "near"}
  /\ hasWindow \in (IF variant = "eth" THEN {TRUE} ELSE BOOLEAN)
  /\ transfer \in (IF variant = "eth" THEN {initiateDraft}
                   ELSE {nearInitiateDraft(tok) : tok \in {"NEAR", "wrap.near"}})
  /\ txs = [h \in Hashes |-> NoTx]
  /\ nTx = 0
  /\ broadcasts = <<>>
  /\ syncedTo = 99
  /\ usedProofs = {}
  /\ url = NoParams
  /\ wallet = "idle"
  /\ lastCall = [op |-> "none", threw |-> FALSE, error |-> ""]
  /\ calls = [p \in Callers |-> NoCall]
  /\ recovered = NoRecovery
  /\ feed = NoFeed
  /\ found = NothingFound

\* ------------------------------------------------- Ethereum -> Aurora: steps
EthBroadcast(r) ==
  /\ broadcasts' = broadcasts \o r.sent
  /\ IF r.sent # <<>>
     THEN /\ nTx' = nTx + 1
          /\ txs' = [txs EXCEPT ![nTx + 1] =
                       [state |-> "pending", nonce |-> nTx + 1, block |-> 0, match |-> TRUE]]
     ELSE UNCHANGED <<nTx, txs>>

\* act is called when status is ACTION_NEEDED or FAILED, checkStatus when it is
\* IN_PROGRESS (lines 89-92, 102-105); a caller may also try either on a
\* COMPLETE record.
Act ==
  /\ variant = "eth"
  /\ transfer.status \in {ACTION_NEEDED, FAILED, COMPLETE}
  /\ transfer.completedStep = null => nTx < MaxTx
  /\ \E env \in (IF transfer.completedStep = null THEN LockEnvs ELSE SyncEnvs) :
       LET r == act(transfer, syncedTo, usedProofs, env, nTx + 1)
       IN  /\ transfer' = r.transfer
           /\ EthBroadcast(r)
           /\ lastCall' = Call("act", r)
  /\ UNCHANGED <<variant, hasWindow, syncedTo, usedProofs, url, wallet>>
  /\ UNCHANGED side

CheckStatus ==
  /\ variant = "eth"
  /\ transfer.status \in {IN_PROGRESS, COMPLETE}
  /\ \E env \in (IF transfer.completedStep = null THEN CheckLockEnvs ELSE SyncEnvs) :
       LET r == checkStatus(transfer, txs, syncedTo, usedProofs, env)
       IN  /\ transfer' = r.transfer
           /\ EthBroadcast(r)
           /\ lastCall' = Call("checkStatus", r)
  /\ UNCHANGED <<variant, hasWindow, syncedTo, usedProofs, url, wallet>>
  /\ UNCHANGED side

\* The chain mines a pending transaction, successfully or reverting.
Mine ==
  /\ variant = "eth"
  /\ \E h \in 1..nTx, ok \in BOOLEAN, b \in BlockNumbers :
       /\ txs[h].state = "pending"
       /\ txs' = [txs EXCEPT ![h].state = IF ok THEN "success" ELSE "reverted",
                             ![h].block = b]
  /\ UNCHANGED <<variant, hasWindow, transfer, nTx, broadcasts, syncedTo,
                 usedProofs, url, wallet, lastCall>>
  /\ UNCHANGED side

\* The user replaces a pending transaction from the wallet (speed up: same
\* call; cancel: another call) and the replacement is mined under the nonce.
Replace ==
  /\ variant = "eth"
  /\ nTx < MaxTx
  /\ \E h \in 1..nTx, ok \in BOOLEAN, same \in BOOLEAN, b \in BlockNumbers :
       /\ txs[h].state = "pending"
       /\ txs' = [txs EXCEPT ![h].state = "replaced",
                             ![nTx + 1] = [state |-> IF ok THEN "success" ELSE "reverted",
                                           nonce |-> txs[h].nonce,
                                           block |-> b,
                                           match |-> same]]
       /\ nTx' = nTx + 1
  /\ UNCHANGED <<variant, hasWindow, transfer, broadcasts, syncedTo,
                 usedProofs, url, wallet, lastCall>>
  /\ UNCHANGED side

\* A pending transaction vanishes for good: its nonce is used up but no
\* transaction with it is found on the chain.
Drop ==
  /\ variant = "eth"
  /\ \E h \in 1..nTx :
       /\ txs[h].state = "pending"
       /\ txs' = [txs EXCEPT ![h].state = "lost"]
  /\ UNCHANGED <<variant, hasWindow, transfer, nTx, broadcasts, syncedTo,
                 usedProofs, url, wallet, lastCall>>
  /\ UNCHANGED side

\* The light client on NEAR advances.
AdvanceSync ==
  /\ variant = "eth"
  /\ \E s \in SyncHeights :
       /\ s > syncedTo
       /\ syncedTo' = s
  /\ UNCHANGED <<variant, hasWindow, transfer, txs, nTx, broadcasts,
                 usedProofs, url, wallet, lastCall>>
  /\ UNCHANGED side

\* The relayer finalizes a successful deposit on Aurora.
Relay ==
  /\ variant = "eth"
  /\ \E h \in 1..nTx :
       /\ txs[h].state = "success"
       /\ h \notin usedProofs
       /\ usedProofs' = usedProofs \cup {h}
  /\ UNCHANGED <<variant, hasWindow, transfer, txs, nTx, broadcasts,
                 syncedTo, url, wallet, lastCall>>
  /\ UNCHANGED side

\* ---------------------------------------------------- NEAR -> Aurora: steps
\* act is called when status is FAILED (lines 70-73); the first lock is made
\* by sendToAurora / wrapAndSendNearToAurora on the draft.
NearAct ==
  /\ variant = "near"
  /\ wallet = "idle"
  /\ transfer.status \in {FAILED, COMPLETE} \/ lastCall.op = "none"
  /\ transfer.completedStep = null => nTx < MaxTx
  /\ \E env \in NearLockEnvs :
       /\ env.wallet = "redirected" => hasWindow
       /\ LET r == nearAct(transfer, url, env, nTx + 1, hasWindow)
          IN  /\ transfer' = r.transfer
              /\ url' = r.url
              /\ broadcasts' = broadcasts \o r.sent
              /\ nTx' = IF r.sent # <<>> THEN nTx + 1 ELSE nTx
              /\ wallet' = IF transfer.completedStep = null /\ ~r.threw
                              /\ env.wallet = "redirected"
                           THEN "signing" ELSE "idle"
              /\ lastCall' = Call("act", r)
  /\ UNCHANGED <<variant, hasWindow, txs, syncedTo, usedProofs>>
  /\ UNCHANGED side

NearCheckStatus ==
  /\ variant = "near"
  /\ hasWindow
  /\ wallet = "idle"
  /\ lastCall.op # "none"
  /\ transfer.status \in {IN_PROGRESS, COMPLETE}
  /\ \E env \in NearCheckEnvs :
       LET r == nearCheckStatus(transfer, url, env)
       IN  /\ transfer' = r.transfer
           /\ url' = r.url
           /\ broadcasts' = broadcasts \o r.sent
           /\ nTx' = IF r.sent # <<>> THEN nTx + 1 ELSE nTx
           /\ lastCall' = Call("checkStatus", r)
  /\ UNCHANGED <<variant, hasWindow, txs, syncedTo, usedProofs, wallet>>
  /\ UNCHANGED side

\* The user approves in the wallet: the wallet sends the transaction and
\* redirects back with its hash.
WalletApprove ==
  /\ variant = "near"
  /\ wallet = "signing"
  /\ nTx < MaxTx
  /\ url' = [url EXCEPT !.transactionHashes = nTx + 1]
  /\ nTx' = nTx + 1
  /\ broadcasts' = Append(broadcasts, nTx + 1)
  /\ wallet' = "idle"
  /\ UNCHANGED <<variant, hasWindow, transfer, txs, syncedTo, usedProofs, lastCall>>
  /\ UNCHANGED side

\* The user rejects in the wallet, which redirects back with an error code.
WalletReject ==
  /\ variant = "near"
  /\ wallet = "signing"
  /\ url' = [url EXCEPT !.errorCode = "userRejected"]
  /\ wallet' = "idle"
  /\ UNCHANGED <<variant, hasWindow, transfer, txs, nTx, broadcasts, syncedTo,
                 usedProofs, lastCall>>
  /\ UNCHANGED side

\* The user comes back to the dapp without an answer from the wallet (tab
\* closed): on page load the dapp clears the parameters.
PageLoad ==
  /\ variant = "near"
  /\ wallet = "signing"
  /\ url' = NoParams
  /\ wallet' = "idle"
  /\ UNCHANGED <<variant, hasWindow, transfer, txs, nTx, broadcasts, syncedTo,
                 usedProofs, lastCall>>
  /\ UNCHANGED side

\* Another transfer of the same page starts locking: the URL names it.
OtherTransferLocks ==
  /\ variant = "near"
  /\ hasWindow
  /\ wallet = "idle"
  /\ url.locking # "t2"
  /\ url' = [NoParams EXCEPT !.locking = "t2"]
  /\ UNCHANGED <<variant, hasWindow, transfer, txs, nTx, broadcasts, syncedTo,
                 usedProofs, wallet, lastCall>>
  /\ UNCHANGED side

Next ==
  \/ Act
  \/ CheckStatus
  \/ Mine
  \/ Replace
  \/ Drop
  \/ AdvanceSync
  \/ Relay
  \/ NearAct
  \/ NearCheckStatus
  \/ WalletApprove
  \/ WalletReject
  \/ PageLoad
  \/ OtherTransferLocks

Spec == Init /\ [][Next]_vars

\* ------------------------------------ Ethereum -> Aurora: concurrent callers
\* Two callers hold the same record and call act without waiting for each
\* other. A call is given the record as its argument; act reads nothing else.
InFlight(c) == c.pc = "dispatched"

main == <<variant, hasWindow, transfer, syncedTo, usedProofs, url, wallet, lastCall>>

\* act entered only while no other call is running on the record.
ActBeginExclusive(p) ==
  /\ calls[p].pc = "idle"
  /\ \A q \in Callers \ {p} : ~InFlight(calls[q])
  /\ transfer.status \in {ACTION_NEEDED, FAILED}
  /\ transfer.completedStep = null
  /\ calls' = [calls EXCEPT ![p] = [NoCall EXCEPT !.pc = "dispatched",
                                                   !.arg = <<transfer>>]]
  /\ UNCHANGED <<main, txs, nTx, broadcasts, recovered, feed, found>>

\* act(transfer) is entered (lines 93-96): the switch finds completedStep null
\* and calls lock, which runs up to its first await.
ActBegin(p) ==
  /\ calls[p].pc = "idle"
  /\ transfer.status \in {ACTION_NEEDED, FAILED}
  /\ transfer.completedStep = null
  /\ calls' = [q \in Callers |->
                IF q = p
                THEN [NoCall EXCEPT !.pc = "dispatched",
                                    !.arg = <<transfer>>,
                                    !.overlapped = \E o \in Callers \ {p} : InFlight(calls[o])]
                ELSE IF InFlight(calls[q])
                THEN [calls[q] EXCEPT !.overlapped = TRUE]
                ELSE calls[q]]
  /\ UNCHANGED <<main, txs, nTx, broadcasts, recovered, feed, found>>

\* The lock of a call in flight runs to its end (lines 210-255) on the record
\* the call was given.
ActFinish(p) ==
  /\ InFlight(calls[p])
  /\ nTx < MaxTx
  /\ \E env \in LockEnvs :
       LET r == act(calls[p].arg[1], syncedTo, usedProofs, env, nTx + 1)
       IN  /\ EthBroadcast(r)
           /\ calls' = [calls EXCEPT ![p].pc = "done",
                                     ![p].threw = r.threw,
                                     ![p].result = IF r.threw THEN <<>> ELSE <<r.transfer>>,
                                     ![p].sent = r.sent]
  /\ UNCHANGED <<main, recovered, feed, found>>

InitConcurrent ==
  /\ Init
  /\ variant = "eth"

NextConcurrent ==
  \/ \E p \in Callers : ActBegin(p)
  \/ \E p \in Callers : ActFinish(p)
  \/ Mine
  \/ Drop

SpecConcurrent == InitConcurrent /\ [][NextConcurrent]_vars

\* ------------------------------------------- Ethereum -> Aurora: recovery
\* The transfer goes its normal way while recover is called, at any time, with
\* the hash of one of its lock transactions or of somebody else's transaction.
SelectedAddresses == {"0x" \o Hex40Lower, "0x" \o Hex40Mixed}

\* new Date().toISOString() at two different times.
Clock == {"2021-06-01T00:00:00.000Z", "2021-06-02T00:00:00.000Z"}

\* A transaction the transfer's sender did not send.
ForeignHash == 0

\* The spellings in which an endpoint may hand back the address a.
Spellings(a) == {x \in SelectedAddresses : toLowerCase(x) = toLowerCase(a)}

\* The Deposited events of block b: one per successful deposit mined in it,
\* with the message of the recipient lock passed (lines 232-235) and the
\* sender in the spelling the event decoder uses.
DepositedEvents(chain, b, t, spelling) ==
  {[transactionHash |-> h,
    sender |-> spelling,
    recipient |-> depositMessage(toLowerCase(slice2(t.recipient))),
    amount |-> t.amount] :
     h \in {x \in DOMAIN chain : /\ chain[x].state = "success"
                                  /\ chain[x].match
                                  /\ chain[x].block = b}}

\* Messages a deposit made by other means can carry.
Messages ==
  {depositMessage(Hex40Lower),
   depositMessage(Hex40Mixed),
   <<AuroraEvmAccount, ":", Hex40Lower, ":", "memo">>,
   <<AuroraEvmAccount, ":", "0x", Hex40Lower>>,
   <<AuroraEvmAccount, ":">>,
   <<AuroraEvmAccount>>,
   <<"other.near", ":", Hex40Lower>>,
   <<Hex40Lower>>}

\* Those among them that recover takes.
AcceptedMessages ==
  {m \in Messages : join(split(m)[1]) = AuroraEvmAccount /\ isHex40(split(m), 2)}

\* One answer of the endpoints per outcome of recover.
RecoverEnvs ==
  {e \in [receiptUp : BOOLEAN, lag : BOOLEAN, eventsUp : BOOLEAN,
          syncUp : BOOLEAN, proofUp : BOOLEAN] :
     /\ ~e.receiptUp => ~e.lag /\ e.eventsUp /\ e.syncUp /\ e.proofUp
     /\ e.lag => e.eventsUp /\ e.syncUp /\ e.proofUp
     /\ ~e.eventsUp => e.syncUp /\ e.proofUp
     /\ ~e.syncUp => e.proofUp}

InitRecover ==
  /\ variant = "eth"
  /\ hasWindow = TRUE
  /\ transfer \in {initiateFrom(a) : a \in SelectedAddresses}
  /\ txs = [h \in Hashes |-> NoTx]
  /\ nTx = 0
  /\ broadcasts = <<>>
  /\ syncedTo = 99
  /\ usedProofs = {}
  /\ url = NoParams
  /\ wallet = "idle"
  /\ lastCall = [op |-> "none", threw |-> FALSE, error |-> ""]
  /\ calls = [p \in Callers |-> NoCall]
  /\ recovered = NoRecovery
  /\ feed = NoFeed
  /\ found = NothingFound

\* initiate (lines 174-201): the draft is handed to lock, once.
Initiate ==
  /\ lastCall.op = "none"
  /\ nTx < MaxTx
  /\ \E env \in LockEnvs :
       LET r == lock(transfer, env, nTx + 1)
       IN  /\ transfer' = r.transfer
           /\ EthBroadcast(r)
           /\ lastCall' = Call("initiate", r)
  /\ UNCHANGED <<variant, hasWindow, syncedTo, usedProofs, url, wallet>>
  /\ UNCHANGED side

\* recover(lockTxHash) for a lock transaction of the transfer.
Recover ==
  /\ \E h \in 1..nTx, env \in RecoverEnvs, now \in Clock,
        spelling \in Spellings(transfer.sender) :
       /\ recovered.rec # <<>> => now # recovered.rec[1].id
       /\ LET receipt == getTransactionReceipt(txs, h, env.lag)
              events == IF receipt = <<>> THEN {}
                        ELSE DepositedEvents(txs, receipt[1].blockNumber, transfer, spelling)
              r == recover(h, receipt, events, syncedTo, usedProofs, env, now)
          IN  recovered' = [op |-> "recover", hash |-> h, events |-> events, rec |-> r.rec,
                            threw |-> r.threw, error |-> r.error]
  /\ UNCHANGED <<main, txs, nTx, broadcasts, calls, feed, found>>

\* recover(lockTxHash) for a transaction of another sender: mined in block
\* 100, with a Deposited event carrying any message, or with none.
RecoverForeign ==
  /\ \E env \in RecoverEnvs, now \in Clock, used \in BOOLEAN,
        msgs \in {{}} \cup {{m} : m \in Messages} :
       /\ recovered.rec # <<>> => now # recovered.rec[1].id
       /\ msgs \notin {{m} : m \in AcceptedMessages} =>
            ~used /\ (env.receiptUp /\ env.eventsUp /\ env.syncUp /\ env.proofUp)
       /\ LET receipt == IF env.lag THEN <<>>
                         ELSE <<[transactionHash |-> ForeignHash,
                                 status |-> TRUE,
                                 blockNumber |-> 100]>>
              events == {[transactionHash |-> ForeignHash,
                          sender |-> "0x" \o Hex40Lower,
                          recipient |-> m,
                          amount |-> "77"] : m \in msgs}
              proofs == IF used THEN usedProofs \cup {ForeignHash} ELSE usedProofs
              r == recover(ForeignHash, receipt, events, syncedTo, proofs, env, now)
          IN  recovered' = [op |-> "recover", hash |-> ForeignHash,
                            events |-> events, rec |-> r.rec,
                            threw |-> r.threw, error |-> r.error]
  /\ UNCHANGED <<main, txs, nTx, broadcasts, calls, feed, found>>

\* checkStatus on the recovered record while it is IN_PROGRESS.
RecoverCheckStatus ==
  /\ recovered.rec # <<>>
  /\ recovered.rec[1].status = IN_PROGRESS
  /\ \E env \in SyncEnvs :
       LET r == checkStatus(recovered.rec[1], txs, syncedTo, usedProofs, env)
       IN  recovered' = [recovered EXCEPT !.op = "checkStatus",
                                          !.rec = <<r.transfer>>,
                                          !.threw = r.threw,
                                          !.error = r.error]
  /\ UNCHANGED <<main, txs, nTx, broadcasts, calls, feed, found>>

NextRecover ==
  \/ Initiate
  \/ CheckStatus
  \/ Mine
  \/ Replace
  \/ AdvanceSync
  \/ Relay
  \/ Recover
  \/ RecoverCheckStatus

SpecRecover == InitRecover /\ [][NextRecover]_vars

\* recover called with hashes of other senders' transactions only.
NextRecoverForeign ==
  \/ AdvanceSync
  \/ RecoverForeign
  \/ RecoverCheckStatus

SpecRecoverForeign == InitRecover /\ [][NextRecoverForeign]_vars

\* ----------------------------------------- NEAR -> Aurora: batch discovery
\* findAllTransfers is called for a sender and a token on an indexer feed of
\* up to MaxFeed rows, each row of a transaction of its own.
InitDiscovery ==
  /\ variant = "near"
  /\ hasWindow = TRUE
  /\ transfer = nearInitiateDraft("wrap.near")
  /\ txs = [h \in Hashes |-> NoTx]
  /\ nTx = 0
  /\ broadcasts = <<>>
  /\ syncedTo = 99
  /\ usedProofs = {}
  /\ url = NoParams
  /\ wallet = "idle"
  /\ lastCall = [op |-> "none", threw |-> FALSE, error |-> ""]
  /\ calls = [p \in Callers |-> NoCall]
  /\ recovered = NoRecovery
  /\ \E n \in 0..MaxFeed, nep \in {"wrap.near", AuroraEvmAccount} :
       \E rows \in [1..n -> Rows], outcomes \in [1..n -> Outcomes] :
         feed = [nep141Address |-> nep,
                 rows |-> [i \in 1..n |->
                             [originated_from_transaction_hash |-> i,
                              method_name |-> rows[i].method_name,
                              receiver_id |-> rows[i].receiver_id,
                              msg |-> rows[i].msg,
                              amount |-> rows[i].amount]],
                 outcomes |-> outcomes]
  /\ found = NothingFound

FindAllTransfers ==
  /\ \E ids \in [1..Len(feed.rows) -> RandomIds], rpcUp \in BOOLEAN,
        order \in CompletionOrders(Len(candidatesOf(feed.nep141Address, NearSender,
                                                    feed.rows))) :
       found' = findAllTransfers(feed.nep141Address, NearSender, feed.rows,
                                 feed.outcomes, ids, rpcUp, order)
  /\ UNCHANGED <<main, txs, nTx, broadcasts, calls, recovered, feed>>

NextDiscovery == FindAllTransfers

SpecDiscovery == InitDiscovery /\ [][NextDiscovery]_vars

\* ------------------------------------------- Ethereum -> Aurora: fair polling
\* The application polls checkStatus on a timer while the record is in
\* progress (lines 102-113), and a poll whose endpoints all answer comes
\* around again and again: the right network, every lookup served.
PollAnswered ==
  /\ variant = "eth"
  /\ transfer.status = IN_PROGRESS
  /\ LET env == IF transfer.completedStep = null THEN CheckLockOk ELSE SyncOk
         r == checkStatus(transfer, txs, syncedTo, usedProofs, env)
     IN  /\ transfer' = r.transfer
         /\ EthBroadcast(r)
         /\ lastCall' = Call("checkStatus", r)
  /\ UNCHANGED <<variant, hasWindow, syncedTo, usedProofs, url, wallet>>
  /\ UNCHANGED side

\* A poll that finds the wallet on another network, or the first endpoint it
\* asks down: it returns or throws without an answer.
PollUnanswered ==
  /\ variant = "eth"
  /\ transfer.status = IN_PROGRESS
  /\ \E env \in (IF transfer.completedStep = null
                 THEN {e \in CheckLockEnvs : e.net # "ok"}
                 ELSE {e \in SyncEnvs : ~e.syncUp /\ e.proofUp}) :
       LET r == checkStatus(transfer, txs, syncedTo, usedProofs, env)
       IN  /\ transfer' = r.transfer
           /\ EthBroadcast(r)
           /\ lastCall' = Call("checkStatus", r)
  /\ UNCHANGED <<variant, hasWindow, syncedTo, usedProofs, url, wallet>>
  /\ UNCHANGED side

InitLive == Init /\ variant = "eth"

NextLive ==
  \/ Act
  \/ PollUnanswered
  \/ PollAnswered
  \/ Mine
  \/ Replace
  \/ Drop
  \/ AdvanceSync
  \/ Relay

SpecLive == InitLive /\ [][NextLive]_vars /\ WF_vars(PollAnswered)

\* ================================================================== claims
StepRank(step) == IF step = null THEN 0
                  ELSE IF step \in {LOCK, NEAR_LOCK} THEN 1
                  ELSE IF step = SYNC THEN 2
                  ELSE 3

\* Every chain view checkSync can be given: a synced height and the proofs the
\* relayer has used (none, or the one of the record's lock transaction).
ProofViews(t) == {{}, {last(t.lockReceipts).transactionHash}}

AtLock == variant = "eth" /\ transfer.completedStep = LOCK

\* C1: across every act / checkStatus call, under any chain behaviour,
\* completedStep never regresses: a step taken by the Ethereum variant is
\* None -> Lock or Lock -> Mint, a step taken by the NEAR variant None -> Lock.
C1_StepNeverRegresses ==
  [][/\ StepRank(transfer'.completedStep) >= StepRank(transfer.completedStep)
     /\ transfer'.completedStep # transfer.completedStep =>
          IF variant = "eth"
          THEN <<transfer.completedStep, transfer'.completedStep>>
                 \in {<<null, LOCK>>, <<LOCK, MINT>>}
          ELSE <<transfer.completedStep, transfer'.completedStep>> = <<null, NEAR_LOCK>>]_vars

\* A transfer whose first lock reverted, retried, locked and minted.
C1_Witness ==
  /\ variant = "eth"
  /\ transfer.completedStep = MINT
  /\ Len(transfer.lockHashes) = 2
  /\ Len(transfer.errors) = 2

\* C2 as stated: for every record at Lock and every fixed chain view, checkSync
\* applied to the record checkSync returned gives back that record, equal in
\* every field (errors and status included).
C2_CheckSyncIdempotent ==
  AtLock =>
    \A s \in SyncHeights, used \in ProofViews(transfer) :
      LET r1 == checkSync(transfer, s, used, SyncOk).transfer
      IN  checkSync(r1, s, used, SyncOk).transfer = r1

\* C2 amended: whenever the first checkSync leaves the record InProgress, a
\* second one under the same chain view returns an identical record; when the
\* first one completes the transfer, a second application differs from the
\* first result in errors alone, which gets one more entry.
C2_CheckSyncIdempotentInProgress ==
  AtLock =>
    \A s \in SyncHeights, used \in ProofViews(transfer) :
      LET r1 == checkSync(transfer, s, used, SyncOk).transfer
          r2 == checkSync(r1, s, used, SyncOk).transfer
      IN  /\ r1.status = IN_PROGRESS => r2 = r1
          /\ r1.status # IN_PROGRESS =>
               /\ r1.status = COMPLETE
               /\ r2 = [r1 EXCEPT !.errors =
                          Append(r1.errors, Err("Transfer already finalized.", 0))]

\* checkSync has reported 19 confirmations; the chain now shows 21 and the
\* proof used, so the next checkSync completes the transfer.
C2_Witness ==
  /\ AtLock
  /\ lastCall.op = "checkStatus"
  /\ transfer.completedConfirmations = 19
  /\ syncedTo = 121
  /\ last(transfer.lockReceipts).transactionHash \in usedProofs

\* C3: checkSync returns Complete and Mint exactly when the synced height is
\* more than neededConfirmations above the lock event's block and the proof is
\* used; in every other case (20 confirmations with the proof used included) it
\* returns InProgress with the step still Lock. With the event at height 100:
\* synced 119 gives 19 confirmations and InProgress, synced 121 with the proof
\* used gives Complete and Mint.
C3_CompleteExactlyWhen ==
  AtLock =>
    \A s \in SyncHeights, used \in ProofViews(transfer) :
      LET rcpt == last(transfer.lockReceipts)
          r == checkSync(transfer, s, used, SyncOk).transfer
          enough == s - rcpt.blockNumber > 20
          isUsed == rcpt.transactionHash \in used
      IN  /\ IF enough /\ isUsed
             THEN r.status = COMPLETE /\ r.completedStep = MINT
             ELSE r.status = IN_PROGRESS /\ r.completedStep = LOCK
          /\ (rcpt.blockNumber = 100 /\ s = 119) =>
               r.completedConfirmations = 19 /\ r.status = IN_PROGRESS
          /\ (rcpt.blockNumber = 100 /\ s = 120) =>
               r.completedConfirmations = 20 /\ r.status = IN_PROGRESS
          /\ (rcpt.blockNumber = 100 /\ s = 121 /\ isUsed) =>
               r.status = COMPLETE /\ r.completedStep = MINT

\* checkStatus found the event of block 100 synced to 121 and its proof used.
C3_Witness ==
  /\ variant = "eth"
  /\ lastCall.op = "checkStatus"
  /\ transfer.status = COMPLETE
  /\ transfer.completedStep = MINT
  /\ transfer.completedConfirmations = 21
  /\ last(transfer.lockReceipts).blockNumber = 100

AtCheckLock ==
  /\ variant = "eth"
  /\ transfer.status = IN_PROGRESS
  /\ transfer.completedStep = null

EthLockFailed ==
  LET h == last(transfer.lockHashes)
      f == findReplacementTx(txs, transfer.ethCache[1], TRUE)
  IN  \/ txs[h].state = "reverted"
      \/ /\ ~Mined(txs[h])
         /\ \/ f.kind \in {"SearchError", "TxValidationError"}
            \/ f.kind = "found" /\ txs[f.hash].state = "reverted"

\* C5 as stated: in every variant checkStatus sets Failed only on a conclusive
\* outcome (Ethereum: revert or ended replacement search; NEAR: the wallet
\* reported an error for this transfer); an error thrown to the caller leaves
\* the record as it was; and while the outcome is unknown (no receipt yet; the
\* wallet redirect information missing, of another transfer, or not yet
\* answered) the record is unchanged.
C5_OnlyConclusiveFailures ==
  [][(CheckStatus \/ NearCheckStatus) =>
       /\ (transfer'.status = FAILED /\ transfer.status # FAILED) =>
            IF variant = "eth" THEN EthLockFailed
            ELSE url.locking = transfer.id /\ url.errorCode # ""
       /\ lastCall'.threw => transfer' = transfer
       /\ transfer.completedStep = null =>
            IF variant = "eth"
            THEN txs[last(transfer.lockHashes)].state = "pending" => transfer' = transfer
            ELSE (\/ url.locking # transfer.id
                  \/ url.errorCode = "" /\ url.transactionHashes = 0)
                   => transfer' = transfer]_vars

\* C5 amended: as stated for the Ethereum variant; the NEAR variant also sets
\* Failed when the wallet redirect information is missing or names another
\* transfer, and leaves the record unchanged only while the redirect names
\* this transfer and carries neither an error code nor a transaction hash.
C5_FailuresOfEachVariant ==
  [][(CheckStatus \/ NearCheckStatus) =>
       /\ (transfer'.status = FAILED /\ transfer.status # FAILED) =>
            IF variant = "eth" THEN EthLockFailed
            ELSE url.locking # transfer.id \/ url.errorCode # ""
       /\ lastCall'.threw => transfer' = transfer
       /\ transfer.completedStep = null =>
            IF variant = "eth"
            THEN txs[last(transfer.lockHashes)].state = "pending" => transfer' = transfer
            ELSE (/\ url.locking = transfer.id
                  /\ url.errorCode = ""
                  /\ url.transactionHashes = 0)
                   => transfer' = transfer]_vars

\* The NEAR variant has failed a transfer whose redirect information is gone.
C5_Witness ==
  /\ variant = "near"
  /\ lastCall.op = "checkStatus"
  /\ transfer.status = FAILED
  /\ transfer.errors = <<Err("Failed to process NEAR Wallet transaction.", 0)>>

\* C6: errors is append-only: across every act / checkStatus call of either
\* variant the errors of the record passed are a prefix of the errors of the
\* record returned.
C6_ErrorsAppendOnly ==
  [][IsPrefix(transfer.errors, transfer'.errors)]_vars

\* C7: lockHashes is append-only: across every act / checkStatus call of
\* either variant (a retried lock included) the lockHashes of the record passed
\* are a prefix of the lockHashes of the record returned.
C7_LockHashesAppendOnly ==
  [][IsPrefix(transfer.lockHashes, transfer'.lockHashes)]_vars

\* C8: when act on a record with completedStep None (Ethereum variant; also a
\* Failed record holding earlier lock hashes) returns, it has broadcast exactly
\* one lock transaction, and the record it returns has status InProgress, that
\* transaction's hash appended last to lockHashes, and completedStep, errors,
\* lockReceipts and completedConfirmations unchanged; no act broadcasts more
\* than one transaction.
C8_ActLocksOnce ==
  [][(Act /\ transfer.completedStep = null) =>
       /\ Len(broadcasts') <= Len(broadcasts) + 1
       /\ ~lastCall'.threw =>
            /\ Len(broadcasts') = Len(broadcasts) + 1
            /\ transfer'.status = IN_PROGRESS
            /\ transfer'.lockHashes = Append(transfer.lockHashes, last(broadcasts'))
            /\ transfer'.completedStep = transfer.completedStep
            /\ transfer'.errors = transfer.errors
            /\ transfer'.lockReceipts = transfer.lockReceipts
            /\ transfer'.completedConfirmations = transfer.completedConfirmations]_vars

\* act has retried the lock of a transfer that failed with one lock hash.
C8_Witness ==
  /\ variant = "eth"
  /\ lastCall.op = "act"
  /\ ~lastCall.threw
  /\ transfer.status = IN_PROGRESS
  /\ transfer.completedStep = null
  /\ Len(transfer.errors) = 1
  /\ transfer.lockHashes = <<1, 2>>
  /\ broadcasts = <<1, 2>>

\* C9: every lock transaction act has broadcast (its hash obtained) is recorded
\* in lockHashes of the record: after the hash is obtained act does not fail
\* or return without it.
C9_BroadcastHashRecorded ==
  variant = "eth" => Range(broadcasts) \subseteq Range(transfer.lockHashes)

\* C10: checkStatus (checkLock, its replacement search included, and
\* checkSync) never initiates a chain action: the transactions broadcast are
\* the same after the call as before.
C10_CheckStatusBroadcastsNothing ==
  [][(CheckStatus \/ NearCheckStatus) =>
       /\ broadcasts' = broadcasts
       /\ nTx' = nTx
       /\ txs' = txs]_vars

\* checkStatus has gone through the replacement search and recorded the
\* replacement, with the single lock broadcast by act.
C10_Witness ==
  /\ variant = "eth"
  /\ lastCall.op = "checkStatus"
  /\ ~lastCall.threw
  /\ transfer.lockHashes = <<1, 2>>
  /\ broadcasts = <<1>>

\* The steps act / checkStatus of the variant dispatch on.
Dispatched(step) == IF variant = "eth" THEN step \in {null, LOCK} ELSE step = null

\* C11: act or checkStatus on a record whose completedStep the variant does
\* not dispatch on (the terminal step of a Complete record in particular)
\* fails with UnrecognizedStep, hands back no new record and broadcasts
\* nothing; a Complete record is therefore never changed.
C11_UnrecognizedStepFails ==
  [][/\ ((Act \/ CheckStatus \/ NearAct \/ NearCheckStatus)
            /\ ~Dispatched(transfer.completedStep)) =>
          /\ lastCall'.threw
          /\ lastCall'.error = "UnrecognizedStep"
          /\ transfer' = transfer
          /\ broadcasts' = broadcasts
          /\ nTx' = nTx
          /\ txs' = txs
     /\ transfer.status = COMPLETE =>
          /\ ~Dispatched(transfer.completedStep)
          /\ transfer' = transfer]_vars

\* act has been tried on a Complete record of the Ethereum variant.
C11_Witness ==
  /\ variant = "eth"
  /\ transfer.status = COMPLETE
  /\ transfer.completedStep = MINT
  /\ lastCall.op = "act"
  /\ lastCall.threw
  /\ lastCall.error = "UnrecognizedStep"

\* C18: in every reachable record of either variant, status Failed implies
\* that errors is not empty.
C18_FailedHasError ==
  transfer.status = FAILED => transfer.errors # <<>>

\* checkStatus has found the lock transaction reverted and could not get the
\* reason: the record is Failed with the one error of that attempt.
C18_Witness ==
  /\ variant = "eth"
  /\ lastCall.op = "checkStatus"
  /\ transfer.status = FAILED
  /\ transfer.errors = <<Err("Could not determine why transaction failed", 1)>>

\* C20: whenever the replacement search of checkLock returns a replacement,
\* its hash is appended to lockHashes whatever its receipt shows, so every
\* receipt in lockReceipts has its transaction hash in lockHashes.
C20_ReceiptHashesRecorded ==
  variant = "eth" =>
    \A i \in 1..Len(transfer.lockReceipts) :
      transfer.lockReceipts[i].transactionHash \in Range(transfer.lockHashes)

\* C12: two act calls can run at the same time on the same record with
\* completedStep None: nothing in act keeps the second from starting while
\* the first is in flight; each acts on the record state it was given, and
\* when both return, two lock transactions have been broadcast.
C12_ConcurrentActsLockTwice ==
  \A p \in Callers : \A q \in Callers \ {p} :
    /\ InFlight(calls[p]) /\ calls[q].pc = "idle" => ENABLED ActBegin(q)
    /\ (/\ calls[p].pc = "done" /\ ~calls[p].threw /\ calls[p].overlapped
        /\ calls[q].pc = "done" /\ ~calls[q].threw /\ calls[q].overlapped) =>
          /\ calls[p].arg = calls[q].arg
          /\ calls[p].arg[1].completedStep = null
          /\ Len(calls[p].sent) = 1 /\ Len(calls[q].sent) = 1
          /\ calls[p].sent # calls[q].sent
          /\ Range(calls[p].sent) \cup Range(calls[q].sent) \subseteq Range(broadcasts)
          /\ Len(broadcasts) = 2
          /\ calls[p].result[1].lockHashes = calls[p].arg[1].lockHashes \o calls[p].sent

\* Both callers were inside act together and both have returned: the lock
\* was broadcast twice, and each record returned holds one of the hashes.
C12_Witness ==
  /\ \A p \in Callers : calls[p].pc = "done" /\ ~calls[p].threw /\ calls[p].overlapped
  /\ broadcasts = <<1, 2>>
  /\ calls["a"].result[1].lockHashes = <<1>>
  /\ calls["b"].result[1].lockHashes = <<2>>

\* The fields of a record that tell how far the transfer is.
ProgressFields == {"status", "completedStep", "completedConfirmations", "errors",
                   "lockHashes", "lockReceipts"}

\* The record the claim starts from: the draft at completedStep Lock, in
\* progress, with the one lock hash and its receipt and no errors.
LockedRecord(h, receipt) ==
  [transferDraft EXCEPT !.completedStep = LOCK,
                        !.status = IN_PROGRESS,
                        !.lockHashes = <<h>>,
                        !.lockReceipts = <<receipt>>,
                        !.errors = <<>>]

\* C13: the record recover(lockTxHash) returns is the one checkSync makes,
\* against the chain state of the call, of the record {completedStep Lock,
\* status InProgress, lockHashes [lockTxHash], lockReceipts [its receipt],
\* errors []}: completedConfirmations is taken from the synced height of the
\* call, and the record is Complete at Mint when the proof is used and the
\* confirmations exceed neededConfirmations.
C13_RecoverIsCheckSyncOfLocked ==
  [][(Recover /\ recovered'.rec # <<>>) =>
       LET h == recovered'.hash
           receipt == [transactionHash |-> h, status |-> TRUE, blockNumber |-> txs[h].block]
           expected == checkSync(LockedRecord(h, receipt), syncedTo, usedProofs, SyncOk).transfer
           got == recovered'.rec[1]
       IN  /\ \A f \in ProgressFields : got[f] = expected[f]
           /\ got.completedConfirmations = Max(0, syncedTo - txs[h].block)
           /\ (h \in usedProofs /\ syncedTo - txs[h].block > NeededConfirmations)
                => got.status = COMPLETE /\ got.completedStep = MINT
           /\ got.status # COMPLETE
                => got.status = IN_PROGRESS /\ got.completedStep = LOCK]_vars

\* recover has returned a record that is already Complete, and one still in
\* progress with confirmations counted.
C13_Witness ==
  /\ recovered.op = "recover"
  /\ recovered.rec # <<>>
  /\ recovered.rec[1].status = COMPLETE
  /\ recovered.rec[1].completedStep = MINT
  /\ recovered.rec[1].completedConfirmations = 21
  /\ recovered.rec[1].errors # <<>>

\* Every endpoint answers.
RecoverOk == [receiptUp |-> TRUE, lag |-> FALSE, eventsUp |-> TRUE,
              syncUp |-> TRUE, proofUp |-> TRUE]

\* What recover returns for the hash just recovered when called again, against
\* the same chain state, with the clock reading now.
RecoverAgain(now) ==
  recover(recovered'.hash,
          getTransactionReceipt(txs, recovered'.hash, FALSE),
          recovered'.events, syncedTo, usedProofs, RecoverOk, now)

HasEvent == \E e \in recovered.events : e.transactionHash = recovered.hash

TheMessage == (CHOOSE e \in recovered.events : e.transactionHash = recovered.hash).recipient

\* The message names the bridge account before its first colon.
DestinationOk(m) ==
  /\ Len(m) >= 1
  /\ m[1] = AuroraEvmAccount
  /\ Len(m) >= 2 => m[2] = ":"

\* The part after the first colon, up to the next one, is 40 hex digits.
RecipientOk(m) ==
  /\ Len(m) >= 3
  /\ m[2] = ":"
  /\ m[3] \in {Hex40Lower, Hex40Mixed}
  /\ Len(m) >= 4 => m[4] = ":"

\* C15: recover returns a record only if the receipt has a matching deposit
\* event, the message names the configured bridge account and its recipient
\* part is a well-formed 40-hex-digit address; when one of the three checks
\* fails recover fails with EventNotFound, WrongDestination, MalformedMessage
\* respectively and produces no record.
C15_RecoverChecksEvent ==
  /\ recovered.rec # <<>> =>
       HasEvent /\ DestinationOk(TheMessage) /\ RecipientOk(TheMessage)
  /\ recovered.op = "recover" =>
       /\ recovered.threw <=> recovered.rec = <<>>
       /\ recovered.error \notin {"RpcError", "TypeError"} =>
            recovered.error =
              IF ~HasEvent THEN "EventNotFound"
              ELSE IF ~DestinationOk(TheMessage) THEN "WrongDestination"
              ELSE IF ~RecipientOk(TheMessage) THEN "MalformedMessage"
              ELSE ""

\* recover has refused an event of the bridge account whose recipient part
\* is not 40 hex digits.
C15_Witness ==
  /\ recovered.op = "recover"
  /\ recovered.threw
  /\ recovered.rec = <<>>
  /\ recovered.error = "MalformedMessage"
  /\ HasEvent
  /\ TheMessage = <<AuroraEvmAccount, ":", "0x", Hex40Lower>>

RoundTripFields == {"status", "completedStep", "lockHashes", "lockReceipts",
                    "completedConfirmations", "errors", "amount", "sender", "recipient"}

\* The synced height a record's confirmations were counted at.
SyncedAt(t) == last(t.lockReceipts).blockNumber + t.completedConfirmations

\* The transfer has gone from initiate through checkStatus polls to Complete,
\* and the record recovered from the hash of the transaction that locked the
\* funds has been advanced to Complete at the same synced height.
RoundTripCase ==
  /\ transfer.status = COMPLETE
  /\ recovered.rec # <<>>
  /\ recovered.rec[1].status = COMPLETE
  /\ recovered.hash = last(transfer.lockReceipts).transactionHash
  /\ SyncedAt(recovered.rec[1]) = SyncedAt(transfer)

\* C16: for the same on-chain events, the record recover produces from the
\* lock hash, advanced by checkSync until Complete, equals on status,
\* completedStep, lockHashes, lockReceipts, completedConfirmations, errors,
\* amount, sender and recipient the record produced by initiate followed by
\* checkStatus polls until Complete, also when the lock transaction first
\* broadcast was replaced.
C16_RoundTrip ==
  RoundTripCase => \A f \in RoundTripFields : recovered.rec[1][f] = transfer[f]

\* C16 (amended): the two records agree on status, completedStep,
\* lockReceipts, completedConfirmations, errors and amount; the recovered
\* lockHashes hold only the last hash of the normal record, which also holds
\* the hash first broadcast when the lock was replaced; sender and recipient
\* agree up to letter case, the recovered recipient being the lower-case
\* spelling that lock sent.
C16_RoundTripUpToHistory ==
  RoundTripCase =>
    /\ \A f \in {"status", "completedStep", "lockReceipts",
                  "completedConfirmations", "errors", "amount"} :
         recovered.rec[1][f] = transfer[f]
    /\ recovered.rec[1].lockHashes = <<last(transfer.lockHashes)>>
    /\ Len(transfer.lockHashes) \in {1, 2}
    /\ Len(transfer.lockHashes) = 2 => transfer.lockHashes[1] = broadcasts[1]
    /\ recovered.rec[1].recipient = toLowerCase(transfer.recipient)
    /\ toLowerCase(recovered.rec[1].sender) = toLowerCase(transfer.sender)

\* Both records are Complete after the lock first broadcast was replaced, for
\* a wallet address in checksum spelling.
C16_Witness ==
  /\ RoundTripCase
  /\ transfer.lockHashes = <<1, 2>>
  /\ recovered.rec[1].lockHashes = <<2>>
  /\ transfer.recipient = "0x" \o Hex40Mixed
  /\ recovered.rec[1].recipient = "0x" \o Hex40Lower

\* The last receipt of the record is a successful one, of the transaction
\* whose hash is last in lockHashes.
LockedBy(t) ==
  /\ t.lockHashes # <<>>
  /\ t.lockReceipts # <<>>
  /\ last(t.lockReceipts).status
  /\ last(t.lockReceipts).transactionHash = last(t.lockHashes)

\* Every record a recover call made now, for a lock transaction of the
\* transfer, would return (a call returns a record only if every endpoint
\* it asks answers).
RecoverableNow ==
  {recover(h, getTransactionReceipt(txs, h, FALSE),
           DepositedEvents(txs, txs[h].block, transfer, spelling),
           syncedTo, usedProofs, RecoverOk, now).rec :
     h \in 1..nTx, now \in Clock, spelling \in Spellings(transfer.sender)} \ {<<>>}

\* C19: once completedStep is Lock or later, reached through checkLock or
\* through recover, lockHashes and lockReceipts are not empty, the last
\* receipt is a successful one and its transaction hash is the last entry of
\* lockHashes, also after a replacement or after earlier reverted attempts;
\* that transaction is a successful one on the chain.
C19_LockedByLastHash ==
  /\ (variant = "eth" /\ transfer.completedStep # null) =>
       /\ LockedBy(transfer)
       /\ txs[last(transfer.lockHashes)].state = "success"
  /\ (variant = "near" /\ transfer.completedStep # null) => transfer.lockHashes # <<>>
  /\ variant = "eth" =>
       \A r \in RecoverableNow :
         /\ r[1].completedStep \in {LOCK, MINT}
         /\ LockedBy(r[1])
         /\ txs[last(r[1].lockHashes)].state = "success"

\* checkLock has taken the record to Lock on the second attempt, the first
\* having reverted, and recover returns a record for the second hash.
C19_Witness ==
  /\ variant = "eth"
  /\ transfer.completedStep = LOCK
  /\ transfer.lockHashes = <<1, 2>>
  /\ Len(transfer.lockReceipts) = 2
  /\ ~transfer.lockReceipts[1].status
  /\ broadcasts = <<1, 2>>
  /\ \E r \in RecoverableNow : r[1].lockHashes = <<2>>

\* C17: findAllTransfers never returns a transfer for an indexed call whose
\* outcome on the chain differs from its claimed amount: for every feed and
\* every claimed amount ("0" included) a candidate whose transaction failed,
\* or whose success value differs from the amount, is absent from the result.
C17_OnlyVerifiedTransfers ==
  \A i \in 1..Len(found.transfers) :
    LET t == found.transfers[i]
        outcome == feed.outcomes[t.lockHashes[1]]
    IN  /\ ~outcome.failed
        /\ outcome.used = t.amount

\* C21: after the replacement search reports a replacement, checkLock takes
\* all evidence from the replacement's hash: the receipt it stores is the
\* replacement's and, when that receipt shows a revert, the revert reason is
\* looked up for the replacement's hash.
C21_EvidenceFromReplacement ==
  [][(CheckStatus /\ Len(transfer'.lockReceipts) > Len(transfer.lockReceipts)) =>
       /\ txs[last(transfer'.lockReceipts).transactionHash].state \in {"success", "reverted"}
       /\ ~last(transfer'.lockReceipts).status =>
            last(transfer'.errors).tx = last(transfer'.lockReceipts).transactionHash]_vars

\* The endpoints answer a checkLock poll: right network, receipt and search
\* calls succeed (the receipts themselves may still lag).
Answered(env) ==
  env.net = "ok" /\ env.receiptUp /\ env.finderUp

\* The receipt a checkLock poll of the record obtains under env: that of the
\* latest lock hash if the node has it, else that of the mined transaction
\* with the cached nonce, else none.
ObtainedReceipt(env) ==
  LET h == last(transfer.lockHashes)
      same == {r \in Hashes : /\ txs[r].nonce = txs[h].nonce
                              /\ txs[r].state \in {"success", "reverted"}
                              /\ txs[r].match}
  IN  IF txs[h].state \in {"success", "reverted"} /\ ~env.lag1
      THEN <<[transactionHash |-> h, status |-> txs[h].state = "success",
              blockNumber |-> txs[h].block]>>
      ELSE IF same # {} /\ ~env.lag2
      THEN LET r == CHOOSE x \in same : TRUE
           IN  <<[transactionHash |-> r, status |-> txs[r].state = "success",
                  blockNumber |-> txs[r].block]>>
      ELSE <<>>

\* The search has nothing conclusive under env: the lock is still pending, or
\* a mined transaction with its nonce exists whose receipt is not served yet.
Inconclusive(env) ==
  LET h == last(transfer.lockHashes)
  IN  /\ ObtainedReceipt(env) = <<>>
      /\ \E r \in Hashes :
            /\ txs[r].nonce = txs[h].nonce
            /\ \/ txs[r].state = "pending"
               \/ txs[r].state \in {"success", "reverted"} /\ txs[r].match

\* C22: when the receipt checkLock obtains shows a revert, checkLock returns
\* (it does not throw, also when the revert-reason lookup fails) the record
\* with status Failed, exactly one new entry at the end of errors (the revert
\* reason, or the generic message when the lookup failed), and completedStep
\* and lockHashes unchanged.
C22_RevertFailsWithOneError ==
  AtCheckLock =>
    \A env \in CheckLockEnvs :
      LET rc == ObtainedReceipt(env)
          r == checkLock(transfer, txs, env)
      IN  (Answered(env) /\ rc # <<>> /\ ~rc[1].status) =>
            /\ ~r.threw
            /\ r.transfer.status = FAILED
            /\ Len(r.transfer.errors) = Len(transfer.errors) + 1
            /\ IsPrefix(transfer.errors, r.transfer.errors)
            /\ last(r.transfer.errors).msg =
                 (IF env.reasonUp THEN "revert reason"
                  ELSE "Could not determine why transaction failed")
            /\ r.transfer.completedStep = transfer.completedStep
            /\ r.transfer.lockHashes = transfer.lockHashes

\* A poll has failed the record on a reverted lock whose revert reason could
\* not be looked up.
C22_Witness ==
  /\ variant = "eth"
  /\ lastCall.op = "checkStatus"
  /\ ~lastCall.threw
  /\ transfer.status = FAILED
  /\ transfer.completedStep = null
  /\ transfer.lockReceipts # <<>>
  /\ ~last(transfer.lockReceipts).status
  /\ last(transfer.errors).msg = "Could not determine why transaction failed"

\* C23: when checkLock gets no receipt for the latest lock hash and the search
\* has nothing conclusive (no replacement yet, or one whose receipt is not yet
\* available), the returned record is the given one in every field, and so it
\* stays over any number of such polls.
C23_InconclusivePollKeepsRecord ==
  AtCheckLock =>
    \A env \in CheckLockEnvs :
      (Answered(env) /\ Inconclusive(env)) =>
        LET r == checkLock(transfer, txs, env)
        IN  /\ ~r.threw
            /\ r.transfer = transfer
            /\ r.sent = <<>>

\* A poll has returned while the lock transaction is still pending.
C23_Witness ==
  /\ AtCheckLock
  /\ lastCall.op = "checkStatus"
  /\ ~lastCall.threw
  /\ txs[last(transfer.lockHashes)].state = "pending"
  /\ Inconclusive(CheckLockOk)

\* A receipt has been obtained for the latest lock of the record: the record
\* is past the lock step, or failed with the reverted receipt of that lock.
ReceiptObtained ==
  /\ transfer.lockReceipts # <<>>
  /\ txs[last(transfer.lockReceipts).transactionHash].nonce
       = txs[last(transfer.lockHashes)].nonce
  /\ \/ transfer.completedStep = LOCK
     \/ transfer.status = FAILED /\ ~last(transfer.lockReceipts).status

\* C24 (as stated): ethCache is present only while the latest lock
\* transaction is unconfirmed: a record returned by checkLock after a receipt
\* has been obtained (completedStep Lock, or Failed by revert) no longer
\* carries the cache.
C24_CacheOnlyWhileUnconfirmed ==
  (variant = "eth" /\ ReceiptObtained) => transfer.ethCache = <<>>

\* C24 (amended): ethCache is written by lock together with the lock hash and
\* describes the last broadcast lock transaction; no poll changes it, so a
\* record carries the cache of its latest lock from the first lock on, also
\* after a receipt has been obtained.
C24_CacheOfLastBroadcast ==
  variant = "eth" =>
    /\ transfer.ethCache # <<>> <=> transfer.lockHashes # <<>>
    /\ transfer.lockHashes # <<>> =>
          /\ transfer.ethCache[1].nonce = txs[last(transfer.lockHashes)].nonce
          /\ transfer.ethCache[1].from = transfer.sender

\* checkLock has obtained the lock's receipt and the record still carries the
\* cache.
C24_Witness ==
  /\ variant = "eth"
  /\ lastCall.op = "checkStatus"
  /\ ReceiptObtained
  /\ transfer.ethCache # <<>>

\* C25: the completedConfirmations checkSync writes is the synced height minus
\* the height of the lock block when the light client is at or past that
\* block and 0 when it is below it; the field is negative in no reachable
\* record; and neededConfirmations keeps the value of the draft through every
\* operation.
C25_ConfirmationsClamped ==
  variant = "eth" =>
    /\ transfer.completedConfirmations >= 0
    /\ transfer.neededConfirmations = NeededConfirmations
    /\ AtLock =>
          \A s \in SyncHeights, used \in ProofViews(transfer), env \in SyncEnvs :
            LET b == last(transfer.lockReceipts).blockNumber
                r == checkSync(transfer, s, used, env)
            IN  /\ r.transfer.neededConfirmations = NeededConfirmations
                /\ ~r.threw =>
                      r.transfer.completedConfirmations = (IF s >= b THEN s - b ELSE 0)

\* The record is polled at the lock step while the light client is still
\* below the lock block: checkSync counts no confirmation.
C25_Witness ==
  /\ AtLock
  /\ lastCall.op = "checkStatus"
  /\ syncedTo < last(transfer.lockReceipts).blockNumber
  /\ checkSync(transfer, syncedTo, usedProofs, SyncOk).transfer.completedConfirmations = 0

\* C27: in the Ethereum variant every reachable Failed record has completedStep
\* None (only checkLock sets Failed, checkSync never does), so act on a Failed
\* record goes to lock: it leaves the step and the confirmations alone and,
\* unless lock throws, appends the hash of the lock it broadcast; it never
\* runs checkSync.
C27_FailedOnlyBeforeLock ==
  [][/\ (variant = "eth" /\ transfer.status = FAILED) => transfer.completedStep = null
     /\ (variant = "eth" /\ transfer.status = FAILED /\ Act) =>
           /\ transfer'.completedStep = null
           /\ transfer'.completedConfirmations = transfer.completedConfirmations
           /\ transfer'.lockReceipts = transfer.lockReceipts
           /\ \/ /\ lastCall'.threw
                 /\ transfer' = transfer
              \/ /\ ~lastCall'.threw
                 /\ Len(broadcasts') = Len(broadcasts) + 1
                 /\ transfer'.status = IN_PROGRESS
                 /\ transfer'.lockHashes
                      = Append(transfer.lockHashes, last(broadcasts'))]_vars

\* act has sent a second lock for a record that checkLock had failed.
C27_Witness ==
  /\ variant = "eth"
  /\ lastCall.op = "act"
  /\ ~lastCall.threw
  /\ transfer.errors # <<>>
  /\ transfer.status = IN_PROGRESS
  /\ transfer.completedStep = null
  /\ Len(transfer.lockHashes) = 2
  /\ txs[transfer.lockHashes[1]].nonce # txs[transfer.lockHashes[2]].nonce

\* The position of the row of a returned transfer in the indexer's answer.
RowOf(t) ==
  CHOOSE i \in 1..Len(feed.rows) :
    feed.rows[i].originated_from_transaction_hash = t.lockHashes[1]

\* C26: the lookups of the candidates complete in any order, and the transfers
\* findAllTransfers returns stand in the order in which their candidates
\* appear in the indexer's answer: each surviving candidate once, an earlier
\* row before a later one.
C26_OrderOfIndexerKept ==
  (found.called /\ ~found.threw) =>
    /\ \A i, j \in 1..Len(found.transfers) :
         i < j => RowOf(found.transfers[i]) < RowOf(found.transfers[j])
    /\ \A order \in CompletionOrders(Len(found.completed)) :
         LET ids == [i \in 1..Len(feed.rows) |-> "4711"]
             other == findAllTransfers(feed.nep141Address, NearSender, feed.rows,
                                       feed.outcomes, ids, TRUE, order).transfers
         IN  [i \in 1..Len(other) |-> other[i].lockHashes]
               = [i \in 1..Len(found.transfers) |-> found.transfers[i].lockHashes]

\* Two candidates survive and the lookup of the second completed first.
C26_Witness ==
  /\ found.called
  /\ Len(found.transfers) = 2
  /\ found.completed = <<2, 1>>

\* The lock of the record is through: the latest lock transaction of the
\* record, or the transaction that replaced it with the same call, is mined
\* successfully, the light client is more than neededConfirmations past its
\* block, and its proof is marked used.
LockThrough ==
  /\ variant = "eth"
  /\ transfer.lockHashes # <<>>
  /\ \E h \in Hashes :
       /\ txs[h].nonce = txs[last(transfer.lockHashes)].nonce
       /\ txs[h].state = "success"
       /\ txs[h].match
       /\ syncedTo - txs[h].block > transfer.neededConfirmations
       /\ h \in usedProofs

\* C28: under fair polling with checkStatus while the record is in progress
\* (a poll whose endpoints answer keeps coming), once the lock transaction
\* or its replacement is mined successfully, the synced height is more than
\* neededConfirmations past the lock block and the proof is marked used, the
\* record eventually is Complete with completedStep Mint.
C28_EventuallyComplete ==
  LockThrough ~> (transfer.status = COMPLETE /\ transfer.completedStep = MINT)

\* The record has completed after its lock was replaced.
C28_Witness ==
  /\ LockThrough
  /\ transfer.status = COMPLETE
  /\ transfer.completedStep = MINT
  /\ Len(transfer.lockHashes) = 2
  /\ txs[transfer.lockHashes[1]].state = "replaced"

====
